---- MODULE Spec2Model ----
(***************************************************************************)
(* Position risk and guaranteed-execution engine of the bybitbot backend.  *)
(*                                                                         *)
(* The module models, from the Python sources under src/backend/app:       *)
(*   - TradingModeManager and the scalping entry route (admission),        *)
(*   - RapidProfitSystem / AggressiveStopSystem / ConservativeProfitSystem *)
(*     / PortfolioManager and PositionSyncService (the position ledger     *)
(*     and its reconciliation),                                            *)
(*   - GuaranteedExecutionSystem (take-profit execution, two channels),    *)
(*   - GuaranteedStopLossExecution (stop-loss strategy escalation),        *)
(*   - the stop adjusters (trailing_tp, dynamic_sl, conservative trailing).*)
(*                                                                         *)
(* Conventions.  Prices are integer ticks (an entry price of 10000 ticks   *)
(* makes one tick 0.01 %).  Sizes are integer lots; a product with a       *)
(* percentage is floored to a lot.  Wall-clock time is a tick counter.     *)
(* Every `await` of real I/O in a coroutine is a point where another       *)
(* coroutine may run, so a handler is split at those points and nowhere    *)
(* else.  Exchange replies are nondeterministic inputs.                    *)
(***************************************************************************)
EXTENDS Integers, Sequences, FiniteSets, TLC

(***************************************************************************)
(* Bounds of the model.                                                    *)
(***************************************************************************)
MaxCap == 2          \* largest configured max_positions explored
MaxTime == 2         \* the clock stops here
MaxFires == 2        \* exit actions counted per conservative rung
MaxHistory == 2      \* execution-history records kept per position
MaxLots == 3         \* largest exchange position size, in lots of LotSize

NumRungs == 2        \* take-profit rungs of the monitored position
max_retries == 3     \* GuaranteedExecutionSystem.max_retries
default_polling_interval == 5   \* config.get('polling_interval', 5)

NumInvocations == 2  \* invocations of execute_guaranteed_stop_loss
SlSize == 10         \* size of the position under stop-loss monitoring

NumEntries == 2      \* /execute-entry requests
LotSize == 500       \* step of the exchange-side sizes

StopDistance == 1    \* |entry - stop_loss| of a portfolio position, per unit
PortfolioValue == 10000  \* total_portfolio_value
max_concurrent_positions == 4   \* PortfolioSettings, scaled down from 15
max_position_per_symbol == 2    \* PortfolioSettings.max_position_per_symbol
max_correlation_positions == 3  \* PortfolioSettings.max_correlation_positions
MaxPerSymbolLen == max_position_per_symbol + NumEntries

DayTicks == 2        \* clock ticks per calendar day
EntryPrice == 10000  \* entry price of every signal, in ticks
Quantity == 1000     \* order quantity of every entry, in lots

NumRequests == MaxCap + 1
Requests == 1..NumRequests
MaxPid == NumRequests + 1   \* position ids handed out

Modes == {"conservative", "scalping"}
None == -1
NoSymbol == "none"
SymbolList == <<"BTCUSDT">>
Symbols == {SymbolList[j] : j \in 1..Len(SymbolList)}
Unlisted == -1
MaxTargets == 4      \* the longest target list (three PRICE rungs and the TIME rung)
EntryRequests == 1..NumEntries

VARIABLES
    \* ---- TradingModeManager (trading_mode_manager.py) ----
    enabled,            \* modes[m].enabled
    max_positions,      \* modes[m].max_positions
    min_interval,       \* modes[m].min_interval_seconds
    max_daily_trades,   \* modes[m].max_daily_trades
    active_positions,   \* active_positions[m] : sequence of position ids
    daily_trades,       \* daily_trades[m]
    last_trade_time,    \* last_trade_time[m], None before the first trade
    last_reset_date,    \* date of the last daily reset
    now,                \* wall clock
    nextPid,            \* next fresh position id
    \* ---- scalping entry route (routers/scalping.py) ----
    reqPc,              \* per request: "new", "awaiting", "registered", "rejected", "failed"
    reqReason,          \* the reason string returned to the caller
    \* ---- RapidProfitSystem / AggressiveStopSystem ----
    rps_positions,      \* rapid_profit_system.active_positions
    rps_targets,        \* rapid_profit_system.profit_targets
    ass_stops,          \* aggressive_stop_system.active_stops
    rps_cycle,          \* the last _check_profit_targets: fired rung, rungs triggered
    \* ---- GuaranteedExecutionSystem (exit/guaranteed_execution.py) ----
    tp_monitoring,      \* position_id in monitoring_tasks
    tp_price,           \* last traded price of the symbol
    tp_executed,        \* tp_level['executed'], per rung
    tp_pc,              \* per channel: "idle", "attempt", "waiting"
    tp_rung,            \* per channel: the rung being executed
    tp_retry,           \* per channel: loop variable `retry`
    tp_ok,              \* per channel: a done task reported success
    tp_placed,          \* <<channel, rung>> pairs for which an order was sent
    tp_accepted,        \* <<channel, rung>> pairs with an order accepted
    tp_history,         \* execution_history[position_id]
    tp_alerts,          \* manual-intervention alerts raised
    tp_task,            \* the task held in monitoring_tasks[position_id].task
    tp_ws_up,           \* listeners started by a reconnect, connected
    tp_ws_down,         \* listeners started by a reconnect, waiting to reconnect
    tp_polling,         \* live _polling_backup tasks of the position
    tp_timeout,         \* live _timeout_protection tasks of the position
    tp_health,          \* live _health_check_monitoring tasks of the position
    \* ---- GuaranteedStopLossExecution (exit/guaranteed_sl.py) ----
    sl_monitored,       \* monitoring_id in monitoring_positions
    sl_attempts,        \* config["execution_attempts"]
    sl_pc,              \* per invocation: "idle", "running", "finishing", "returned"
    sl_idx,             \* per invocation: index of the strategy tried next
    sl_backup,          \* per invocation: backup_methods, with each result
    sl_result,          \* per invocation: "none", "success", "failed", "not_found"
    sl_history,         \* execution_history[monitoring_id]: empty, or the one record
    sl_alerts,          \* execution-failure alerts sent
    sl_exch,            \* size of the position at the exchange
    \* ---- ConservativeProfitSystem (conservative_profit_system.py) ----
    cps_positions,      \* active_positions
    cps_targets,        \* profit_targets (no is_active field)
    cps_trailing,       \* trailing_stops: active, stop_price
    cps_highest,        \* highest_profits, in 0.01 %
    \* ---- exits handed to the caller, exchange, entry route ----
    exit_actions,       \* per position and rung: partial exits returned so far
    exch_size,          \* per symbol: size listed by the exchange, Unlisted if none
    entPc,              \* per /execute-entry request: "new", "awaiting", "done", ...
    sync_zero,          \* positions the last sync cycle found listed with size zero
    reset_pc,           \* POST /portfolio/reset: "idle", or "syncing" in force_sync
    sync_running,       \* the _sync_loop task is alive
    sync_failed,        \* the last cycle of _sync_loop logged an error
    poll_failed,        \* an iteration of _polling_backup logged an error
    \* ---- HighFrequencyOptimizer (scalping/high_frequency_optimizer.py) ----
    hf_now,             \* datetime.now(), in seconds
    circuit_breaker_active,
    circuit_breaker_until,  \* None until the breaker first opens
    consecutive_failures,
    hf_pc,              \* per caller: "idle", or "executing" inside the order call
    hf_priority,        \* per caller: priority of the last request
    hf_result,          \* per caller: what the last request returned
    \* ---- PortfolioManager (trading/portfolio_manager.py) ----
    pm_positions,       \* positions[symbol]: list of [quantity, status]
    \* ---- AdvancedTrailingTakeProfit (trading/exit/trailing_tp.py) ----
    ttp_side,           \* position['side'] of the trailed position: "BUY" or "SELL"
    ttp_status,         \* active_positions[id]: the TrailingStatus, or inactive
    \* ---- DynamicStopLossAdjustment (trading/exit/dynamic_sl.py) ----
    dsl_side,           \* side of the adjusted position: "Buy" or "Sell"
    dsl_breakeven,      \* adjustment_history[id]["breakeven_triggered"]
    dsl_result,         \* the adjustment returned last
    dsl_price,          \* the current_price of the last call of adjust_stop_loss
    \* ---- ConservativeStopSystem (conservative_stop_system.py) ----
    css_positions,      \* active_positions: entry_price, direction
    css_stops,          \* active_stops: the list of ConservativeStopLevel
    css_breakeven_moved, \* breakeven_moved
    css_action,         \* the action check_stop_conditions returned last
    \* ---- EmergencyStopLossSystem (trading/exit/emergency_sl.py) ----
    em_status,          \* system_status
    em_assessment,      \* the assessment monitor_emergency_conditions returned last
    em_closed,          \* positions the last execute_emergency_stop_loss closed
    \* ---- GuaranteedExecutionSystem: the health check ----
    polling_interval,   \* polling_interval, in seconds
    ws_connections,     \* ws_connections[symbol]: "none", or the socket "open"/"closed"
    hc_log,             \* what the last round of _health_check_monitoring saw and did
    \* ---- GuaranteedStopLossExecution monitoring, StopLossAvoidanceIntelligence ----
    sl_config,              \* monitoring_positions[monitoring_id], or NoConfig
    mark_price,             \* markPrice of the position at the exchange
    false_breakout_history, \* decisions kept for the position (the last ten)
    avoidance_active,       \* delay_seconds of avoidance_active[position_id], 0 without entry
    check_result            \* what the last _check_position_status returned

admVars == <<enabled, max_positions, min_interval, max_daily_trades,
             active_positions, daily_trades, last_trade_time,
             last_reset_date, now, nextPid, reqPc, reqReason>>
rapidVars == <<rps_positions, rps_targets, ass_stops, rps_cycle>>

tpVars == <<tp_monitoring, tp_price, tp_executed, tp_pc, tp_rung, tp_retry,
            tp_ok, tp_placed, tp_accepted, tp_history, tp_alerts>>

slVars == <<sl_monitored, sl_attempts, sl_pc, sl_idx, sl_backup, sl_result,
            sl_history, sl_alerts, sl_exch>>

cpsVars == <<cps_positions, cps_targets, cps_trailing, cps_highest>>
ledVars == <<exit_actions, exch_size, entPc>>
pmVars == <<pm_positions>>
stopVars == <<ttp_side, ttp_status, dsl_side, dsl_breakeven, dsl_result, dsl_price>>
cssVars == <<css_positions, css_stops, css_breakeven_moved, css_action>>
emVars == <<em_status, em_assessment, em_closed>>
loopVars == <<sync_running, sync_failed, poll_failed>>
syncVars == <<sync_zero, reset_pc, loopVars>>
hfVars == <<hf_now, circuit_breaker_active, circuit_breaker_until, consecutive_failures,
            hf_pc, hf_priority, hf_result>>
monVars == <<tp_task, tp_ws_up, tp_ws_down, tp_polling, tp_timeout, tp_health>>
hcVars == <<polling_interval, ws_connections, hc_log>>
avVars == <<sl_config, mark_price, false_breakout_history, avoidance_active,
            check_result>>
\* The exit subsystems, which no entry, ledger or conservative action touches.
exitVars == <<tpVars, slVars, stopVars, emVars, monVars, hcVars, avVars>>

vars == <<admVars, rapidVars, tpVars, slVars, cpsVars, ledVars, pmVars, stopVars,
          cssVars, emVars, monVars, hcVars, avVars, syncVars, hfVars>>

\* What the actions of one component leave alone.
exceptEntry == <<exitVars, cpsVars, exch_size, entPc, pmVars, cssVars, syncVars, hfVars>>
exceptMonitor == <<admVars, rapidVars, slVars, cpsVars, ledVars, pmVars, stopVars, cssVars,
                   emVars, avVars, syncVars, hfVars>>
exceptTP == <<exceptMonitor, monVars, hcVars>>
exceptSL == <<admVars, rapidVars, tpVars, cpsVars, ledVars, pmVars, stopVars, cssVars,
              emVars, monVars, hcVars, avVars, syncVars, hfVars>>
exceptLedger == <<exitVars, cssVars, syncVars, hfVars>>
exceptStops == <<admVars, rapidVars, tpVars, slVars, cpsVars, ledVars, pmVars, cssVars,
                 emVars, monVars, hcVars, avVars, syncVars, hfVars>>
exceptEmergency == <<admVars, rapidVars, tpVars, slVars, cpsVars, ledVars, pmVars, stopVars,
                     cssVars, monVars, hcVars, avVars, syncVars, hfVars>>

(***************************************************************************)
(* TradingModeManager                                                      *)
(***************************************************************************)
Date(t) == t \div DayTicks

\* Counters that are never reset.
never_reset == daily_trades

\* _reset_daily_counters: lazy reset, run at the head of can_open_position
\* and register_position.
DailyAfterReset ==
    IF Date(now) # last_reset_date THEN [m \in Modes |-> 0] ELSE daily_trades

\* The daily trade cap looked at before the open-position cap.
daily_limit_first(m) ==
    IF ~enabled[m]
    THEN [can_open |-> FALSE, reason |-> "disabled"]
    ELSE IF DailyAfterReset[m] >= max_daily_trades[m]
    THEN [can_open |-> FALSE, reason |-> "daily_limit"]
    ELSE IF Len(active_positions[m]) >= max_positions[m]
    THEN [can_open |-> FALSE, reason |-> "max_positions"]
    ELSE IF last_trade_time[m] # None /\ now - last_trade_time[m] < min_interval[m]
    THEN [can_open |-> FALSE, reason |-> "interval"]
    ELSE [can_open |-> TRUE, reason |-> "ok"]

\* can_open_position: the four rules, in the order of the code, evaluated on
\* the counters as _reset_daily_counters leaves them.
can_open_position(m) ==
    IF ~enabled[m]
    THEN [can_open |-> FALSE, reason |-> "disabled"]
    ELSE IF Len(active_positions[m]) >= max_positions[m]
    THEN [can_open |-> FALSE, reason |-> "max_positions"]
    ELSE IF DailyAfterReset[m] >= max_daily_trades[m]
    THEN [can_open |-> FALSE, reason |-> "daily_limit"]
    ELSE IF last_trade_time[m] # None /\ now - last_trade_time[m] < min_interval[m]
    THEN [can_open |-> FALSE, reason |-> "interval"]
    ELSE [can_open |-> TRUE, reason |-> "ok"]

\* register_position: no admission rule is evaluated here.
RegisteredList(m, pid) == Append(active_positions[m], pid)

register_position(m, pid) ==
    /\ active_positions' = [active_positions EXCEPT ![m] = RegisteredList(m, pid)]
    /\ daily_trades' = [DailyAfterReset EXCEPT ![m] = @ + 1]
    /\ last_trade_time' = [last_trade_time EXCEPT ![m] = now]
    /\ last_reset_date' = Date(now)

toggle_mode(m, b) ==
    /\ enabled[m] # b
    /\ enabled' = [enabled EXCEPT ![m] = b]
    /\ UNCHANGED <<max_positions, min_interval, max_daily_trades,
                   active_positions, daily_trades, last_trade_time,
                   last_reset_date, now, nextPid, reqPc, reqReason>>
    /\ UNCHANGED <<rapidVars, exit_actions, exceptEntry>>

Tick ==
    /\ now < MaxTime
    /\ now' = now + 1
    /\ UNCHANGED <<enabled, max_positions, min_interval, max_daily_trades,
                   active_positions, daily_trades, last_trade_time,
                   last_reset_date, nextPid, reqPc, reqReason>>
    /\ UNCHANGED <<rapidVars, exit_actions, exceptEntry>>

(***************************************************************************)
(* RapidProfitSystem.setup_rapid_profit / AggressiveStopSystem setup       *)
(***************************************************************************)
\* Targets in ticks of 0.01 % of the entry price; `percentage` in tenths.
TargetPrice(entry, direction, bp) ==
    IF direction = "BUY" THEN entry + (entry * bp) \div 10000
                         ELSE entry - (entry * bp) \div 10000

\* _create_profit_targets with confidence 1.0 and an expected duration of
\* 4..5 minutes (both multipliers 1.0): three PRICE rungs, then the TIME rung.
create_profit_targets(entry, direction) ==
    << [target_price |-> TargetPrice(entry, direction, 20), percentage |-> 5,
        priority |-> 1, trigger_type |-> "PRICE", is_active |-> TRUE, guarded |-> TRUE],
       [target_price |-> TargetPrice(entry, direction, 30), percentage |-> 3,
        priority |-> 2, trigger_type |-> "PRICE", is_active |-> TRUE, guarded |-> TRUE],
       [target_price |-> TargetPrice(entry, direction, 50), percentage |-> 2,
        priority |-> 3, trigger_type |-> "PRICE", is_active |-> TRUE, guarded |-> TRUE],
       [target_price |-> TargetPrice(entry, direction, 14), percentage |-> 8,
        priority |-> 0, trigger_type |-> "TIME", is_active |-> TRUE, guarded |-> TRUE] >>

\* _create_stop_levels: five levels, priorities 3, 2, 1, 4, 5; the last two
\* carry no price (stop_price 0.0).
create_stop_levels ==
    << [level |-> "initial", priority |-> 3, priced |-> TRUE, is_active |-> TRUE],
       [level |-> "max_loss", priority |-> 2, priced |-> TRUE, is_active |-> TRUE],
       [level |-> "emergency", priority |-> 1, priced |-> TRUE, is_active |-> TRUE],
       [level |-> "time", priority |-> 4, priced |-> FALSE, is_active |-> TRUE],
       [level |-> "momentum", priority |-> 5, priced |-> FALSE, is_active |-> TRUE] >>

\* setup_rapid_profit: the position record carries no 'symbol' key.
setup_rapid_profit(pid, entry, size, direction) ==
    /\ rps_positions' = rps_positions @@ (pid :>
          [symbol |-> NoSymbol, entry_price |-> entry, position_size |-> size,
           remaining_size |-> size, direction |-> direction, external |-> FALSE])
    /\ rps_targets' = rps_targets @@ (pid :> create_profit_targets(entry, direction))
    /\ exit_actions' = exit_actions @@ (pid :> [k \in 1..MaxTargets |-> 0])
    /\ UNCHANGED rps_cycle

setup_aggressive_stops(pid) ==
    ass_stops' = ass_stops @@ (pid :> create_stop_levels)

(***************************************************************************)
(* routers/scalping.py: execute_scalping_entry                             *)
(***************************************************************************)
\* Up to the first await: the admission check.
ExecuteScalpingCheck(r) ==
    /\ reqPc[r] = "new"
    /\ LET res == can_open_position("scalping") IN
       /\ reqPc' = [reqPc EXCEPT ![r] = IF res.can_open THEN "awaiting" ELSE "rejected"]
       /\ reqReason' = [reqReason EXCEPT ![r] = res.reason]
    /\ daily_trades' = DailyAfterReset
    /\ last_reset_date' = Date(now)
    /\ UNCHANGED <<enabled, max_positions, min_interval, max_daily_trades,
                   active_positions, last_trade_time, now, nextPid>>
    /\ UNCHANGED <<rapidVars, exit_actions, exceptEntry>>

\* After the awaits (balance, order execution): registration and set-up, or
\* the failure return when the order did not execute.
ExecuteScalpingComplete(r, executed, direction) ==
    /\ reqPc[r] = "awaiting"
    /\ IF executed
       THEN /\ nextPid <= MaxPid
            /\ register_position("scalping", nextPid)
            /\ setup_rapid_profit(nextPid, EntryPrice, Quantity, direction)
            /\ setup_aggressive_stops(nextPid)
            /\ nextPid' = nextPid + 1
            /\ reqPc' = [reqPc EXCEPT ![r] = "registered"]
            /\ UNCHANGED reqReason
       ELSE /\ reqPc' = [reqPc EXCEPT ![r] = "failed"]
            /\ reqReason' = [reqReason EXCEPT ![r] = "execution_failed"]
            /\ UNCHANGED <<active_positions, daily_trades, last_trade_time,
                           last_reset_date, nextPid>>
            /\ UNCHANGED <<rapidVars, exit_actions>>
    /\ UNCHANGED <<enabled, max_positions, min_interval, max_daily_trades, now>>
    /\ UNCHANGED exceptEntry

(***************************************************************************)
(* PortfolioManager                                                        *)
(***************************************************************************)
\* Risk is |current_price - stop_loss| * quantity; every signal puts the
\* stop StopDistance ticks from the entry, and the portfolio is valued at
\* PortfolioValue, so that the two limits are 0.8 % and 10 % of it.
PositionRisk(pos) == StopDistance * pos.quantity
SingleRiskExceeded(pos) == PositionRisk(pos) * 1000 > 8 * PortfolioValue
PortfolioRiskLimit == PortfolioValue \div 10

RECURSIVE SumRisk(_)
SumRisk(list) ==
    IF list = <<>> THEN 0
    ELSE (IF Head(list).status # "CLOSED" THEN PositionRisk(Head(list)) ELSE 0)
           + SumRisk(Tail(list))

RECURSIVE SumOver(_, _)
SumOver(f, S) ==
    IF S = {} THEN 0
    ELSE LET x == CHOOSE y \in S : TRUE IN f[x] + SumOver(f, S \ {x})

\* _calculate_portfolio_risk over a positions table.
calculate_portfolio_risk(table) ==
    SumOver([s \in DOMAIN table |-> SumRisk(table[s])], DOMAIN table)

\* currency_groups: the group of correlated symbols a symbol belongs to, the
\* empty set for a symbol of no group.
BTC_GROUP == {"BTCUSDT", "BTCPERP"}
currency_group(symbol) == IF symbol \in BTC_GROUP THEN BTC_GROUP ELSE {}

\* _check_correlation_limit: the active symbols of the symbol's group are
\* counted, not their positions.
check_correlation_limit(symbol) ==
    LET group_positions ==
            Cardinality({s \in DOMAIN pm_positions :
                            s \in currency_group(symbol) /\ pm_positions[s] # <<>>})
    IN currency_group(symbol) = {} \/ group_positions < max_correlation_positions

\* PortfolioManager.can_open_position: the rules in the order of the code.
\* risk_amount is 2 % of the balance.
portfolio_can_open(symbol) ==
    LET total == SumOver([s \in DOMAIN pm_positions |-> Len(pm_positions[s])],
                         DOMAIN pm_positions)
        available == PortfolioRiskLimit - calculate_portfolio_risk(pm_positions)
    IN IF total >= max_concurrent_positions THEN "max_concurrent"
       ELSE IF Len(pm_positions[symbol]) >= max_position_per_symbol THEN "max_per_symbol"
       ELSE IF PortfolioValue \div 50 > available THEN "portfolio_risk"
       ELSE IF ~check_correlation_limit(symbol) THEN "correlation"
       ELSE "ok"

add_position(symbol, qty) ==
    pm_positions' = [pm_positions EXCEPT ![symbol] =
                        Append(@, [quantity |-> qty, status |-> "OPEN"])]

\* update_position with a partial_close_qty: every OPEN position of the
\* symbol is reduced by the same quantity.
PartialClose(pos, qty) ==
    IF pos.status = "OPEN" /\ qty > 0
    THEN [quantity |-> pos.quantity - qty,
          status |-> IF pos.quantity - qty <= 0 THEN "CLOSED" ELSE "PARTIAL"]
    ELSE pos

update_position(table, symbol, qty) ==
    [table EXCEPT ![symbol] = [j \in 1..Len(@) |-> PartialClose(@[j], qty)]]

\* close_position: the status is set and the position leaves the list.
RemoveAt(list, i) == [j \in 1..(Len(list) - 1) |-> IF j < i THEN list[j] ELSE list[j + 1]]

close_position(symbol, i) ==
    /\ i \in 1..Len(pm_positions[symbol])
    /\ pm_positions' = [pm_positions EXCEPT ![symbol] = RemoveAt(@, i)]
    /\ UNCHANGED <<admVars, rapidVars, cpsVars, ledVars, exceptLedger>>

\* rebalance_portfolio, once the rebalance interval has elapsed: the OPEN
\* positions over the single-position risk limit, riskiest first, are halved
\* through update_position for as long as the portfolio risk is over its limit.
HighRisk(table) ==
    {<<s, j>> \in (DOMAIN table) \X (1..MaxPerSymbolLen) :
        /\ j <= Len(table[s])
        /\ table[s][j].status = "OPEN"
        /\ SingleRiskExceeded(table[s][j])}

RECURSIVE Rebalance(_, _)
Rebalance(table, todo) ==
    IF todo = {} \/ calculate_portfolio_risk(table) <= PortfolioRiskLimit
    THEN table
    ELSE LET risk(x) == PositionRisk(pm_positions[x[1]][x[2]])
             pick == CHOOSE x \in todo :
                        \A y \in todo : (risk(x) > risk(y))
                                         \/ (risk(x) = risk(y) /\ x[2] <= y[2])
             pos == table[pick[1]][pick[2]]
         IN Rebalance(update_position(table, pick[1], pos.quantity \div 2), todo \ {pick})

rebalance_portfolio ==
    /\ pm_positions' = Rebalance(pm_positions, HighRisk(pm_positions))
    /\ UNCHANGED <<admVars, rapidVars, cpsVars, ledVars, exceptLedger>>

(***************************************************************************)
(* ConservativeProfitSystem                                                *)
(***************************************************************************)
\* setup_conservative_profit: three PRICE targets at one, two and three times
\* the stop distance; the trailing stop starts inactive at the stop-loss.
conservative_targets(entry, stop_loss, direction) ==
    LET risk_amount == IF entry >= stop_loss THEN entry - stop_loss ELSE stop_loss - entry
        tp(n) == IF direction = "BUY" THEN entry + n * risk_amount ELSE entry - n * risk_amount
    IN << [target_price |-> tp(1), percentage |-> 5, priority |-> 1],
          [target_price |-> tp(2), percentage |-> 3, priority |-> 2],
          [target_price |-> tp(3), percentage |-> 2, priority |-> 3] >>

setup_conservative_profit(pid, symbol, entry, size, direction, stop_loss) ==
    /\ cps_positions' = cps_positions @@ (pid :>
          [symbol |-> symbol, entry_price |-> entry, position_size |-> size,
           remaining_size |-> size, direction |-> direction, stop_loss |-> stop_loss])
    /\ cps_targets' = cps_targets @@ (pid :> conservative_targets(entry, stop_loss, direction))
    /\ cps_trailing' = cps_trailing @@ (pid :> [active |-> FALSE, stop_price |-> stop_loss])
    /\ cps_highest' = cps_highest @@ (pid :> 0)
    /\ exit_actions' = exit_actions @@ (pid :> [k \in 1..MaxTargets |-> 0])

\* Profit in 0.01 % of the entry price.
ProfitBp(entry, direction, price) ==
    IF direction = "BUY" THEN ((price - entry) * 10000) \div entry
                         ELSE ((entry - price) * 10000) \div entry

Max(a, b) == IF a > b THEN a ELSE b

\* A dictionary without the keys outside S (del d[key]).
Restrict(f, S) == [x \in S |-> f[x]]

\* _check_trailing_stop with the ProfitLockConfig of a confident signal
\* (threshold 0.5 %, distance 0.3 %).  `highest` is highest_profits as
\* check_profit_conditions has just updated it.
TrailingCandidate(direction, price) ==
    IF direction = "BUY" THEN price - (price * 30) \div 10000
                         ELSE price + (price * 30) \div 10000

check_trailing_stop(trailing, direction, price, profit, highest) ==
    IF profit >= 50 /\ ~trailing.active
    THEN [active |-> TRUE, stop_price |-> TrailingCandidate(direction, price)]
    ELSE IF trailing.active /\ profit > highest
    THEN IF direction = "BUY"
         THEN IF TrailingCandidate(direction, price) > trailing.stop_price
              THEN [trailing EXCEPT !.stop_price = TrailingCandidate(direction, price)]
              ELSE trailing
         ELSE IF TrailingCandidate(direction, price) < trailing.stop_price
              THEN [trailing EXCEPT !.stop_price = TrailingCandidate(direction, price)]
              ELSE trailing
    ELSE trailing

TrailingTriggered(trailing, direction, price) ==
    /\ trailing.active
    /\ IF direction = "BUY" THEN price <= trailing.stop_price
                            ELSE price >= trailing.stop_price

\* _is_target_reached
is_target_reached(target, price, direction) ==
    IF direction = "BUY" THEN price >= target.target_price
                         ELSE price <= target.target_price

\* The target loop of check_profit_conditions: the first reached target in
\* priority order, 0 if none.  No target is ever switched off.
FirstReachedTarget(targets, price, direction) ==
    LET reached == {k \in 1..Len(targets) : is_target_reached(targets[k], price, direction)}
    IN IF reached = {} THEN 0
       ELSE CHOOSE k \in reached :
               \A j \in reached : targets[k].priority <= targets[j].priority

\* check_profit_conditions: highest profit, trailing stop, then the targets.
\* A TAKE_PROFIT for rung k is returned to the caller (counted in
\* exit_actions); neither the target nor remaining_size changes.
check_profit_conditions(pid, price) ==
    /\ pid \in DOMAIN cps_positions
    /\ LET pos == cps_positions[pid]
           profit == ProfitBp(pos.entry_price, pos.direction, price)
           highest == Max(cps_highest[pid], profit)
           trailing == check_trailing_stop(cps_trailing[pid], pos.direction, price, profit, highest)
           k == FirstReachedTarget(cps_targets[pid], price, pos.direction)
       IN /\ cps_highest' = [cps_highest EXCEPT ![pid] = highest]
          /\ cps_trailing' = [cps_trailing EXCEPT ![pid] = trailing]
          /\ IF ~TrailingTriggered(trailing, pos.direction, price) /\ k # 0
             THEN /\ exit_actions[pid][k] < MaxFires
                  /\ exit_actions' = [exit_actions EXCEPT ![pid][k] = @ + 1]
             ELSE UNCHANGED exit_actions
    /\ UNCHANGED <<cps_positions, cps_targets, exch_size, entPc>>
    /\ UNCHANGED <<admVars, rapidVars, pmVars, exceptLedger>>

(***************************************************************************)
(* ConservativeStopSystem                                                  *)
(***************************************************************************)
\* _create_custom_config for a confident signal (confidence > 0.8), in 0.01 %.
breakeven_move_percent == 80
max_loss_percent == 350
partial_stop_percent == 200

NoAction == [action |-> "NONE", level |-> 0]

\* _create_stop_levels: the signal's stop (priority 2), the maximum-loss stop
\* (priority 1) and the unpriced time stop (priority 3), in this list order.
conservative_stop_levels(entry, direction, initial_stop) ==
    LET max_loss_price == IF direction = "BUY"
                          THEN entry - (entry * max_loss_percent) \div 10000
                          ELSE entry + (entry * max_loss_percent) \div 10000
    IN << [level_name |-> "initial", stop_price |-> initial_stop, priority |-> 2, is_active |-> TRUE],
          [level_name |-> "max_loss", stop_price |-> max_loss_price, priority |-> 1, is_active |-> TRUE],
          [level_name |-> "time", stop_price |-> 0, priority |-> 3, is_active |-> TRUE] >>

setup_conservative_stops(pid, entry, direction, initial_stop) ==
    /\ css_positions' = (pid :> [entry_price |-> entry, direction |-> direction]) @@ css_positions
    /\ css_stops' = (pid :> conservative_stop_levels(entry, direction, initial_stop)) @@ css_stops
    /\ css_breakeven_moved' = (pid :> FALSE) @@ css_breakeven_moved
    /\ css_action' = (pid :> NoAction) @@ css_action

\* The stop written by _check_breakeven_move: the entry plus (long) or minus
\* (short) 0.1 % for the fees.
breakeven_stop(entry, direction) ==
    IF direction = "BUY" THEN entry + entry \div 1000 ELSE entry - entry \div 1000

\* _check_breakeven_move without the breakeven_moved test.
always_breakeven_move(moved, pnl) == pnl >= breakeven_move_percent

\* _check_breakeven_move: TRUE when the stop is to be moved in this cycle.
check_breakeven_move(moved, pnl) == ~moved /\ pnl >= breakeven_move_percent

\* The write of _check_breakeven_move into the level named "initial".
MoveInitialStop(levels, new_stop) ==
    [k \in 1..Len(levels) |->
        IF levels[k].level_name = "initial"
        THEN [levels[k] EXCEPT !.stop_price = new_stop] ELSE levels[k]]

\* The trigger test of _check_stop_levels for one level.
StopLevelTriggered(level, direction, price) ==
    /\ level.is_active
    /\ level.stop_price # 0
    /\ IF direction = "BUY" THEN price <= level.stop_price ELSE price >= level.stop_price

\* _check_stop_levels: the first triggered level of sorted(stop_levels,
\* key=priority), 0 if none.  sorted is stable.  No level is switched off.
check_stop_levels(levels, direction, price) ==
    LET hit == {k \in 1..Len(levels) : StopLevelTriggered(levels[k], direction, price)}
    IN IF hit = {} THEN 0
       ELSE CHOOSE k \in hit :
               \A j \in hit : \/ levels[k].priority < levels[j].priority
                              \/ levels[k].priority = levels[j].priority /\ k <= j

\* check_stop_conditions: breakeven move, stop levels, time stop, partial
\* stop; the first that applies is returned.  `timeUp` says whether the
\* position has been held for time_stop_hours.
check_stop_conditions(pid, price, timeUp) ==
    /\ pid \in DOMAIN css_positions
    /\ LET pos == css_positions[pid]
           pnl == ProfitBp(pos.entry_price, pos.direction, price)
           k == check_stop_levels(css_stops[pid], pos.direction, price)
       IN IF check_breakeven_move(css_breakeven_moved[pid], pnl)
          THEN /\ css_stops' = [css_stops EXCEPT ![pid] =
                     MoveInitialStop(@, breakeven_stop(pos.entry_price, pos.direction))]
               /\ css_breakeven_moved' = [css_breakeven_moved EXCEPT ![pid] = TRUE]
               /\ css_action' = [css_action EXCEPT ![pid] = [action |-> "UPDATE_STOP", level |-> 0]]
          ELSE /\ UNCHANGED <<css_stops, css_breakeven_moved>>
               /\ css_action' = [css_action EXCEPT ![pid] =
                     IF k # 0 THEN [action |-> "STOP_LOSS", level |-> k]
                     ELSE IF timeUp THEN [action |-> "TIME_STOP", level |-> 0]
                     ELSE IF pnl <= 0 - partial_stop_percent
                          THEN [action |-> "PARTIAL_STOP", level |-> 0]
                     ELSE NoAction]
    /\ UNCHANGED css_positions
    /\ UNCHANGED <<admVars, rapidVars, exitVars, cpsVars, ledVars, pmVars, syncVars, hfVars>>

(***************************************************************************)
(* routers/conservative.py                                                 *)
(***************************************************************************)
\* POST /setup-position: the profit and the stop set-up for a position the
\* request describes; entry price, direction and stop-loss are taken as sent.
setup_conservative_position(pid, symbol, direction, stop_loss) ==
    /\ pid = nextPid
    /\ nextPid <= MaxPid
    /\ setup_conservative_profit(pid, symbol, EntryPrice, Quantity, direction, stop_loss)
    /\ setup_conservative_stops(pid, EntryPrice, direction, stop_loss)
    /\ nextPid' = nextPid + 1
    /\ UNCHANGED <<enabled, max_positions, min_interval, max_daily_trades,
                   active_positions, daily_trades, last_trade_time, last_reset_date,
                   now, reqPc, reqReason, exch_size, entPc>>
    /\ UNCHANGED <<rapidVars, exitVars, pmVars, syncVars, hfVars>>

\* POST /cleanup-position/{position_id}: both conservative systems forget
\* the position.
cleanup_conservative_position(pid) ==
    /\ pid \in DOMAIN cps_positions \cup DOMAIN css_positions
    /\ cps_positions' = Restrict(cps_positions, DOMAIN cps_positions \ {pid})
    /\ cps_targets' = Restrict(cps_targets, DOMAIN cps_targets \ {pid})
    /\ cps_trailing' = Restrict(cps_trailing, DOMAIN cps_trailing \ {pid})
    /\ cps_highest' = Restrict(cps_highest, DOMAIN cps_highest \ {pid})
    /\ css_positions' = Restrict(css_positions, DOMAIN css_positions \ {pid})
    /\ css_stops' = Restrict(css_stops, DOMAIN css_stops \ {pid})
    /\ css_breakeven_moved' = Restrict(css_breakeven_moved, DOMAIN css_breakeven_moved \ {pid})
    /\ css_action' = Restrict(css_action, DOMAIN css_action \ {pid})
    /\ UNCHANGED <<admVars, rapidVars, exitVars, ledVars, pmVars, syncVars, hfVars>>

(***************************************************************************)
(* HighFrequencyOptimizer: the circuit breaker                             *)
(***************************************************************************)
circuit_breaker_threshold == 5     \* OptimizationConfig.circuit_breaker_threshold
cooldown_seconds == 30             \* OptimizationConfig.cooldown_seconds
NumCallers == 2      \* requests in flight at a time
ClockStep == 15      \* seconds the clock advances in one step
MaxClock == 75       \* the optimizer's clock stops here
Callers == 1..NumCallers
Priorities == {"high", "normal"}

\* _check_circuit_breaker, first branch: the breaker is open and its time
\* has passed (datetime.now() > circuit_breaker_until).
BreakerExpired == circuit_breaker_active /\ hf_now > circuit_breaker_until

\* A breaker that lets every request through.
never_blocks == FALSE

\* _check_circuit_breaker: TRUE while the breaker is open and its time has
\* not passed.
check_circuit_breaker == circuit_breaker_active /\ ~BreakerExpired

\* _select_execution_strategy: 'immediate' for priority 'high', otherwise by
\* the order size against the available liquidity.
select_execution_strategy(priority, size) ==
    IF priority = "high" THEN "immediate"
    ELSE IF size = "large" THEN "iceberg"
    ELSE IF size = "medium" THEN "batched"
    ELSE "standard"

\* optimize_order_execution up to the first await inside the order call: the
\* breaker check (which closes an expired breaker), the latency and resource
\* checks, then the order is sent.  The priority is looked at only when the
\* strategy is chosen.
optimize_order_execution(c, priority, checksOk, size) ==
    /\ hf_pc[c] = "idle"
    /\ circuit_breaker_active' = (circuit_breaker_active /\ ~BreakerExpired)
    /\ consecutive_failures' = IF BreakerExpired THEN 0 ELSE consecutive_failures
    /\ hf_priority' = [hf_priority EXCEPT ![c] = priority]
    /\ IF check_circuit_breaker
       THEN /\ hf_result' = [hf_result EXCEPT ![c] = "Circuit breaker active"]
            /\ UNCHANGED hf_pc
       ELSE IF ~checksOk
       THEN /\ hf_result' = [hf_result EXCEPT ![c] = "turned away"]
            /\ UNCHANGED hf_pc
       ELSE /\ hf_result' = [hf_result EXCEPT ![c] = select_execution_strategy(priority, size)]
            /\ hf_pc' = [hf_pc EXCEPT ![c] = "executing"]
    /\ UNCHANGED <<hf_now, circuit_breaker_until>>
    /\ UNCHANGED <<admVars, rapidVars, exitVars, cpsVars, ledVars, pmVars, cssVars, syncVars>>

\* The order call returns: _update_performance_stats zeroes the failure
\* count on a success; on a failure _handle_execution_failure counts it and
\* opens the breaker at the threshold.
OptimizeComplete(c, success) ==
    /\ hf_pc[c] = "executing"
    /\ hf_pc' = [hf_pc EXCEPT ![c] = "idle"]
    /\ hf_result' = [hf_result EXCEPT ![c] = IF success THEN "success" ELSE "failed"]
    /\ consecutive_failures' = IF success THEN 0 ELSE consecutive_failures + 1
    /\ IF ~success /\ consecutive_failures + 1 >= circuit_breaker_threshold
       THEN /\ circuit_breaker_active' = TRUE
            /\ circuit_breaker_until' = hf_now + cooldown_seconds
       ELSE UNCHANGED <<circuit_breaker_active, circuit_breaker_until>>
    /\ UNCHANGED <<hf_now, hf_priority>>
    /\ UNCHANGED <<admVars, rapidVars, exitVars, cpsVars, ledVars, pmVars, cssVars, syncVars>>

\* Time passes at the optimizer.
AdvanceClock ==
    /\ hf_now + ClockStep <= MaxClock
    /\ hf_now' = hf_now + ClockStep
    /\ UNCHANGED <<circuit_breaker_active, circuit_breaker_until, consecutive_failures,
                   hf_pc, hf_priority, hf_result>>
    /\ UNCHANGED <<admVars, rapidVars, exitVars, cpsVars, ledVars, pmVars, cssVars, syncVars>>

(***************************************************************************)
(* routers/trading.py: execute_entry                                       *)
(***************************************************************************)
\* Up to `await executor.execute_entry`: the portfolio admission check.
ExecuteEntryCheck(e, symbol) ==
    /\ entPc[e] = "new"
    /\ entPc' = [entPc EXCEPT ![e] =
                    IF portfolio_can_open(symbol) = "ok" THEN "awaiting" ELSE "rejected"]
    /\ UNCHANGED <<exit_actions, exch_size>>
    /\ UNCHANGED <<admVars, rapidVars, cpsVars, pmVars, exceptLedger>>

\* After the await: the portfolio entry and, when the conservative mode is
\* enabled, the conservative profit set-up and the registration with the mode
\* manager (which is not asked whether a position may be opened).
ExecuteEntryComplete(e, symbol, executed, qty) ==
    /\ entPc[e] = "awaiting"
    /\ IF executed
       THEN /\ entPc' = [entPc EXCEPT ![e] = "done"]
            /\ add_position(symbol, qty)
            /\ IF enabled["conservative"]
               THEN /\ nextPid <= MaxPid
                    /\ setup_conservative_profit(nextPid, symbol, EntryPrice, qty, "BUY",
                                                 EntryPrice - EntryPrice \div 100)
                    /\ setup_conservative_stops(nextPid, EntryPrice, "BUY",
                                                EntryPrice - EntryPrice \div 100)
                    /\ register_position("conservative", nextPid)
                    /\ nextPid' = nextPid + 1
               ELSE UNCHANGED <<cpsVars, cssVars, exit_actions, active_positions,
                                daily_trades, last_trade_time, last_reset_date, nextPid>>
       ELSE /\ entPc' = [entPc EXCEPT ![e] = "failed"]
            /\ UNCHANGED <<cpsVars, cssVars, exit_actions, active_positions, daily_trades,
                           last_trade_time, last_reset_date, nextPid, pmVars>>
    /\ UNCHANGED <<enabled, max_positions, min_interval, max_daily_trades, now,
                   reqPc, reqReason, exch_size>>
    /\ UNCHANGED <<rapidVars, exitVars, syncVars, hfVars>>

(***************************************************************************)
(* RapidProfitSystem: profit targets                                       *)
(***************************************************************************)
\* The trigger test of _check_profit_targets for one target.  A PRICE target
\* that carries conditions also needs volume and momentum (`condsOk`); the
\* TIME target needs the minimum hold time (`holdOk`) and a positive profit.
TargetTriggered(target, pos, price, condsOk, holdOk) ==
    IF target.trigger_type = "PRICE"
    THEN /\ IF pos.direction = "BUY" THEN price >= target.target_price
                                     ELSE price <= target.target_price
         /\ target.guarded => condsOk
    ELSE holdOk /\ ProfitBp(pos.entry_price, pos.direction, price) > 0

\* The active targets whose trigger holds in this cycle.
TriggeredTargets(targets, pos, price, condsOk, holdOk) ==
    {k \in 1..Len(targets) :
        targets[k].is_active /\ TargetTriggered(targets[k], pos, price, condsOk, holdOk)}

\* The target loop: list order, inactive targets skipped, first hit taken.
FirstTriggered(targets, pos, price, condsOk, holdOk) ==
    LET hit == TriggeredTargets(targets, pos, price, condsOk, holdOk)
    IN IF hit = {} THEN 0 ELSE CHOOSE k \in hit : \A j \in hit : k <= j

\* profit_size = remaining_size * percentage (percentage in tenths).
ProfitSize(remaining, percentage) == (remaining * percentage) \div 10

IncreasedRemaining(remaining, percentage) == remaining + ProfitSize(remaining, percentage)

\* position['remaining_size'] -= profit_size
ReducedRemaining(remaining, percentage) == remaining - ProfitSize(remaining, percentage)

\* _check_profit_targets, as reached through update_profit_status: the hit
\* target's share leaves remaining_size, the target is switched off, and a
\* PARTIAL_CLOSE is returned to the caller.
check_profit_targets(pid, price, condsOk, holdOk) ==
    /\ pid \in DOMAIN rps_positions
    /\ pid \in DOMAIN rps_targets
    /\ LET pos == rps_positions[pid]
           k == FirstTriggered(rps_targets[pid], pos, price, condsOk, holdOk)
       IN /\ k # 0
          /\ rps_positions' = [rps_positions EXCEPT ![pid].remaining_size =
                                  ReducedRemaining(@, rps_targets[pid][k].percentage)]
          /\ rps_targets' = [rps_targets EXCEPT ![pid][k].is_active = FALSE]
          /\ exit_actions' = [exit_actions EXCEPT ![pid][k] = @ + 1]
          /\ rps_cycle' = [pid |-> pid, fired |-> k,
                           triggered |-> TriggeredTargets(rps_targets[pid], pos, price,
                                                          condsOk, holdOk)]
    /\ UNCHANGED <<ass_stops, exch_size, entPc>>
    /\ UNCHANGED <<admVars, cpsVars, pmVars, exceptLedger>>

(***************************************************************************)
(* The exchange, and PositionSyncService                                   *)
(***************************************************************************)
ExchSizes == {Unlisted, 0} \cup {n * LotSize : n \in 1..MaxLots}

\* The position of a symbol changes at the exchange (fills, manual trades).
ExchangeChange(symbol, size) ==
    /\ size # exch_size[symbol]
    /\ exch_size' = [exch_size EXCEPT ![symbol] = size]
    /\ UNCHANGED <<exit_actions, entPc>>
    /\ UNCHANGED <<admVars, rapidVars, cpsVars, pmVars, exceptLedger>>

\* _get_local_positions: rapid positions, then conservative ones.
LocalIds == DOMAIN rps_positions \cup DOMAIN cps_positions
LocalSymbol(pid) ==
    IF pid \in DOMAIN cps_positions THEN cps_positions[pid].symbol
    ELSE rps_positions[pid].symbol
LocalSize(pid) ==
    IF pid \in DOMAIN cps_positions THEN cps_positions[pid].position_size
    ELSE rps_positions[pid].position_size

Listed(listing) == {s \in Symbols : listing[s] # Unlisted}

\* _update_position_info: a size that differs from the ledger's position_size
\* replaces both position_size and remaining_size.
update_position_info(pos, local_size, bybit_size) ==
    IF bybit_size # local_size
    THEN [pos EXCEPT !.position_size = bybit_size, !.remaining_size = bybit_size]
    ELSE pos

\* The symbols _register_external_position is called for and does not turn
\* away (size and average price must be positive).
ToImport(listing) ==
    {s \in Listed(listing) :
        /\ \A pid \in LocalIds : LocalSymbol(pid) # s
        /\ listing[s] > 0}
ImportRank(s, imports) ==
    Cardinality({j \in 1..Len(SymbolList) :
                    /\ SymbolList[j] \in imports
                    /\ \E i \in 1..Len(SymbolList) : SymbolList[i] = s /\ j < i})
ImportIds(imports) == {nextPid + ImportRank(s, imports) : s \in imports}
ImportSymbol(pid, imports) == CHOOSE s \in imports : nextPid + ImportRank(s, imports) = pid

\* The targets _register_external_position attaches: three PRICE rungs
\* without conditions.
external_profit_targets(entry, direction) ==
    << [target_price |-> TargetPrice(entry, direction, 20), percentage |-> 5,
        priority |-> 1, trigger_type |-> "PRICE", is_active |-> TRUE, guarded |-> FALSE],
       [target_price |-> TargetPrice(entry, direction, 30), percentage |-> 3,
        priority |-> 2, trigger_type |-> "PRICE", is_active |-> TRUE, guarded |-> FALSE],
       [target_price |-> TargetPrice(entry, direction, 50), percentage |-> 2,
        priority |-> 3, trigger_type |-> "PRICE", is_active |-> TRUE, guarded |-> FALSE] >>

\* _register_external_position writes the rapid-profit record and targets,
\* then reads aggressive_stop_system.active_positions, an attribute the
\* class never defines: the AttributeError ends the registration there, so
\* neither the stop level nor the mode-manager entry is written.
external_position(symbol, size) ==
    [symbol |-> symbol, entry_price |-> EntryPrice, position_size |-> size,
     remaining_size |-> size, direction |-> "BUY", external |-> TRUE]

\* The cycle once client.get_positions() has answered with `listing`:
\* ledger positions whose symbol is listed are updated, the others are
\* cleaned up (the mode manager's list is compared against the id string
\* and keeps its entries), and unknown listed symbols are imported.
SyncWithListing(listing) ==
    LET kept == {pid \in LocalIds : LocalSymbol(pid) \in Listed(listing)}
        upd(pos) == update_position_info(pos, pos.position_size, listing[pos.symbol])
        imports == ToImport(listing)
        newIds == ImportIds(imports)
        keptR == kept \cap DOMAIN rps_positions
        keptC == kept \cap DOMAIN cps_positions
    IN /\ nextPid + Cardinality(imports) - 1 <= MaxPid
       /\ rps_positions' =
             [pid \in keptR \cup newIds |->
                IF pid \in newIds
                THEN external_position(ImportSymbol(pid, imports),
                                       listing[ImportSymbol(pid, imports)])
                ELSE upd(rps_positions[pid])]
       /\ rps_targets' =
             [pid \in (kept \cap DOMAIN rps_targets) \cup newIds |->
                IF pid \in newIds THEN external_profit_targets(EntryPrice, "BUY")
                ELSE rps_targets[pid]]
       /\ ass_stops' = Restrict(ass_stops, kept \cap DOMAIN ass_stops)
       /\ UNCHANGED rps_cycle
       /\ cps_positions' = [pid \in keptC |-> upd(cps_positions[pid])]
       /\ cps_targets' = Restrict(cps_targets, keptC)
       /\ cps_trailing' = Restrict(cps_trailing, keptC)
       /\ cps_highest' = Restrict(cps_highest, keptC)
       /\ css_positions' = Restrict(css_positions, kept \cap DOMAIN css_positions)
       /\ css_stops' = Restrict(css_stops, kept \cap DOMAIN css_stops)
       /\ css_breakeven_moved' =
             Restrict(css_breakeven_moved, kept \cap DOMAIN css_breakeven_moved)
       /\ css_action' = Restrict(css_action, kept \cap DOMAIN css_action)
       /\ exit_actions' =
             [pid \in (kept \cap DOMAIN exit_actions) \cup newIds |->
                IF pid \in newIds THEN [k \in 1..MaxTargets |-> 0] ELSE exit_actions[pid]]
       /\ nextPid' = nextPid + Cardinality(imports)
       /\ sync_zero' = {pid \in kept : listing[LocalSymbol(pid)] = 0}

\* sync_positions.  The client call either raises (the BybitClient of
\* models.py has no get_positions; the error is caught and the cycle ends)
\* or answers with the exchange's listing.
sync_positions(fetched) ==
    /\ IF fetched
       THEN SyncWithListing(exch_size)
       ELSE UNCHANGED <<rapidVars, cpsVars, cssVars, exit_actions, nextPid, sync_zero>>
    /\ UNCHANGED <<enabled, max_positions, min_interval, max_daily_trades,
                   active_positions, daily_trades, last_trade_time, last_reset_date,
                   now, reqPc, reqReason>>
    /\ UNCHANGED <<exch_size, entPc, pmVars, exitVars, hfVars>>

\* A loop that drops the error handler of its body: the exception ends the
\* task.
loop_ends(running) == FALSE

\* `except Exception` around the body of a loop iteration (_sync_loop,
\* _polling_backup): the error is logged, the task sleeps and the loop test is
\* evaluated again.
except_Exception(running) == running

\* _sync_loop: one cycle of the periodic task.  A failed fetch is logged by
\* sync_positions itself.
sync_loop(fetched) ==
    /\ sync_running
    /\ sync_positions(fetched)
    /\ sync_failed' = ~fetched
    /\ sync_running' = IF fetched THEN sync_running ELSE except_Exception(sync_running)
    /\ UNCHANGED <<reset_pc, poll_failed>>

\* The mode manager's lists as they are, not cleared.
KeptModeSlots == active_positions

\* The lists reset_portfolio and cleanup_all_positions leave in the mode
\* manager.
ClearedModeSlots == [m \in Modes |-> <<>>]

\* POST /portfolio/reset up to the await of the client in force_sync:
\* PortfolioManager.reset_portfolio clears the portfolio, the four profit and
\* stop systems and the mode manager's lists; cleanup_all_positions then finds
\* no local position and clears the lists again.  trailing_stops,
\* highest_profits and breakeven_moved are not cleared.
reset_portfolio ==
    /\ reset_pc = "idle"
    /\ reset_pc' = "syncing"
    /\ pm_positions' = [s \in Symbols |-> <<>>]
    /\ rps_positions' = <<>>
    /\ rps_targets' = <<>>
    /\ ass_stops' = <<>>
    /\ cps_positions' = <<>>
    /\ cps_targets' = <<>>
    /\ css_positions' = <<>>
    /\ css_stops' = <<>>
    /\ active_positions' = ClearedModeSlots
    /\ UNCHANGED <<rps_cycle, cps_trailing, cps_highest, css_breakeven_moved, css_action,
                   sync_zero, loopVars>>
    /\ UNCHANGED <<enabled, max_positions, min_interval, max_daily_trades, daily_trades,
                   last_trade_time, last_reset_date, now, nextPid, reqPc, reqReason>>
    /\ UNCHANGED <<ledVars, exitVars, hfVars>>

\* force_sync of the reset request, after the await: one sync cycle, and the
\* request returns.
force_sync(fetched) ==
    /\ reset_pc = "syncing"
    /\ reset_pc' = "idle"
    /\ sync_positions(fetched)
    /\ UNCHANGED loopVars

(***************************************************************************)
(* GuaranteedExecutionSystem: one monitored long position, two channels    *)
(***************************************************************************)
Channels == {"ws", "poll"}
Rungs == 1..NumRungs
\* tp_levels[k]['price'] of the monitored position: one per cent apart.
TpLevelPrice(k) == EntryPrice + k * (EntryPrice \div 100)
TpPrices == {EntryPrice} \cup {TpLevelPrice(k) : k \in Rungs}

\* _check_tp_hit, side BUY.
check_tp_hit(k, price) == price >= TpLevelPrice(k)

\* The loop over tp_levels of _process_price_update and _polling_backup: the
\* first rung, in list order, that is not executed and is hit.
FirstDueRung(price) ==
    LET due == {k \in Rungs : ~tp_executed[k] /\ check_tp_hit(k, price)}
    IN IF due = {} THEN 0 ELSE CHOOSE k \in due : \A j \in due : k <= j

\* A connected listener feeds the "ws" channel, a polling task the "poll"
\* channel.
ChannelLive(c) ==
    IF c = "ws" THEN tp_task = "listening" \/ tp_ws_up > 0 ELSE tp_polling > 0

\* The method _execute_tp_immediately writes into the ExecutionAttempt, for
\* either caller.
attempt_method(c) == "websocket_primary"

TpInFlight == Cardinality({c \in Channels : tp_pc[c] # "idle"})

\* The socket a listener stored in ws_connections is closed when the listener
\* leaves its `async with`; a listener that never connected stored none.
socket_closed(conn) == IF conn = "open" THEN "closed" ELSE conn

\* A listener task that is connected, or waiting out its reconnect delay.
LiveListener(task) == task \in {"listening", "backoff"}

\* _stop_existing_monitoring: the task held in the MonitoringTask is
\* cancelled unless it is done, and the entry is deleted.  Only that one task
\* is known to the entry.
stop_existing_monitoring(task) == IF LiveListener(task) THEN "cancelled" ELSE task

\* ensure_take_profit_execution: an existing entry is stopped, the history is
\* reset, the listener task is created and stored in the new entry, and the
\* polling, timeout and health-check tasks are created and not stored.
ensure_take_profit_execution ==
    /\ tp_monitoring' = TRUE
    /\ tp_history' = <<>>
    /\ tp_task' = "listening"      \* the old task, if live, was cancelled first
    /\ tp_polling' = tp_polling + 1
    /\ tp_timeout' = tp_timeout + 1
    /\ tp_health' = tp_health + 1
    /\ UNCHANGED <<tp_ws_up, tp_ws_down>>
    /\ UNCHANGED <<tp_price, tp_executed, tp_pc, tp_rung, tp_retry, tp_ok,
                   tp_placed, tp_accepted, tp_alerts>>
    /\ UNCHANGED <<exceptMonitor, hcVars>>

\* The except branch of _websocket_monitoring: the connection of a listener
\* fails and the listener waits five seconds.
WsFail(tracked) ==
    /\ IF tracked
       THEN /\ tp_task = "listening"
            /\ tp_task' = "backoff"
            /\ UNCHANGED <<tp_ws_up, tp_ws_down>>
       ELSE /\ tp_ws_up > 0
            /\ tp_ws_up' = tp_ws_up - 1
            /\ tp_ws_down' = tp_ws_down + 1
            /\ UNCHANGED tp_task
    /\ ws_connections' = socket_closed(ws_connections)
    /\ UNCHANGED <<tp_polling, tp_timeout, tp_health, polling_interval, hc_log>>
    /\ UNCHANGED <<tpVars, exceptMonitor>>

\* After the five seconds: while the position has an entry a new listener
\* task is created, which no entry holds, and the waiting task ends.
WsReconnect(tracked) ==
    /\ IF tracked
       THEN /\ tp_task = "backoff"
            /\ tp_task' = "done"
            /\ tp_ws_up' = IF tp_monitoring THEN tp_ws_up + 1 ELSE tp_ws_up
            /\ UNCHANGED tp_ws_down
       ELSE /\ tp_ws_down > 0
            /\ tp_ws_down' = tp_ws_down - 1
            /\ tp_ws_up' = IF tp_monitoring THEN tp_ws_up + 1 ELSE tp_ws_up
            /\ UNCHANGED tp_task
    /\ UNCHANGED <<tp_polling, tp_timeout, tp_health>>
    /\ UNCHANGED <<tpVars, exceptMonitor, hcVars>>

\* An ERROR message on the stream: the listener leaves its loop and ends.
WsBreak(tracked) ==
    /\ IF tracked
       THEN /\ tp_task = "listening"
            /\ tp_task' = "done"
            /\ UNCHANGED tp_ws_up
       ELSE /\ tp_ws_up > 0
            /\ tp_ws_up' = tp_ws_up - 1
            /\ UNCHANGED tp_task
    /\ ws_connections' = socket_closed(ws_connections)
    /\ UNCHANGED <<tp_ws_down, tp_polling, tp_timeout, tp_health, polling_interval, hc_log>>
    /\ UNCHANGED <<tpVars, exceptMonitor>>

\* The loop test of _polling_backup and of _health_check_monitoring after
\* their sleep: the task ends when the position has no entry.
PollingLoopExit ==
    /\ tp_polling > 0
    /\ ~tp_monitoring
    /\ tp_polling' = tp_polling - 1
    /\ UNCHANGED <<tp_task, tp_ws_up, tp_ws_down, tp_timeout, tp_health>>
    /\ UNCHANGED <<tpVars, exceptMonitor, hcVars>>

\* One iteration of _polling_backup whose body raises (get_tickers fails, or
\* the answer has no list): the handler logs and sleeps.
polling_error ==
    /\ tp_polling > 0
    /\ tp_monitoring
    /\ tp_pc["poll"] = "idle"
    /\ poll_failed' = TRUE
    /\ tp_polling' = IF except_Exception(TRUE) THEN tp_polling ELSE tp_polling - 1
    /\ UNCHANGED <<tp_task, tp_ws_up, tp_ws_down, tp_timeout, tp_health>>
    /\ UNCHANGED <<admVars, rapidVars, slVars, cpsVars, ledVars, pmVars, stopVars, cssVars,
                   emVars, avVars, hfVars, sync_zero, reset_pc, sync_running, sync_failed>>
    /\ UNCHANGED <<tpVars, hcVars>>

HealthLoopExit ==
    /\ tp_health > 0
    /\ ~tp_monitoring
    /\ tp_health' = tp_health - 1
    /\ UNCHANGED <<tp_task, tp_ws_up, tp_ws_down, tp_polling, tp_timeout>>
    /\ UNCHANGED <<tpVars, exceptMonitor, hcVars>>

\* A listener finishes ws_connect and stores its socket under the symbol.
WsConnected ==
    /\ tp_task = "listening" \/ tp_ws_up > 0
    /\ ws_connections # "open"
    /\ ws_connections' = "open"
    /\ UNCHANGED <<polling_interval, hc_log>>
    /\ UNCHANGED <<tpVars, monVars, exceptMonitor>>

\* _check_websocket_health: no stored socket is closed.
check_websocket_health == ws_connections # "closed"

\* _enhance_backup_monitoring: the interval is halved, not below one second.
enhance_backup_monitoring(interval) ==
    IF tp_monitoring THEN Max(1, interval \div 2) ELSE interval

\* One round of _health_check_monitoring while the position has an entry.
health_check_monitoring(api_healthy) ==
    /\ tp_health > 0
    /\ tp_monitoring
    /\ LET interval == IF ~check_websocket_health \/ ~api_healthy
                       THEN enhance_backup_monitoring(polling_interval)
                       ELSE polling_interval
       IN /\ polling_interval' = interval
          /\ hc_log' = [ws_alive |-> ChannelLive("ws"), before |-> polling_interval,
                        after |-> interval]
    /\ UNCHANGED ws_connections
    /\ UNCHANGED <<tpVars, monVars, exceptMonitor>>

\* _timeout_protection after max_hold_time: while the position has an entry,
\* _emergency_close_all sends the closing order; when it is accepted
\* _cleanup_position stops the monitoring, otherwise the alert is raised.
timeout_protection(accepted) ==
    /\ tp_timeout > 0
    /\ tp_timeout' = tp_timeout - 1
    /\ IF tp_monitoring /\ accepted
       THEN /\ tp_task' = stop_existing_monitoring(tp_task)
            /\ tp_monitoring' = FALSE
            /\ UNCHANGED tp_alerts
       ELSE /\ tp_alerts' = IF tp_monitoring THEN tp_alerts + 1 ELSE tp_alerts
            /\ UNCHANGED <<tp_task, tp_monitoring>>
    /\ UNCHANGED <<tp_ws_up, tp_ws_down, tp_polling, tp_health>>
    /\ UNCHANGED <<tp_price, tp_executed, tp_pc, tp_rung, tp_retry, tp_ok,
                   tp_placed, tp_accepted, tp_history>>
    /\ UNCHANGED <<exceptMonitor, hcVars>>

TpPriceMove(p) ==
    /\ p # tp_price
    /\ tp_price' = p
    /\ UNCHANGED <<tp_monitoring, tp_executed, tp_pc, tp_rung, tp_retry, tp_ok,
                   tp_placed, tp_accepted, tp_history, tp_alerts>>
    /\ UNCHANGED exceptTP

\* _process_price_update (ws) / one round of _polling_backup (poll), up to the
\* await inside _execute_tp_immediately: the rung is checked, not marked.
TpObserve(c) ==
    /\ tp_monitoring
    /\ ChannelLive(c)
    /\ tp_pc[c] = "idle"
    /\ FirstDueRung(tp_price) # 0
    /\ Len(tp_history) + TpInFlight < MaxHistory
    /\ tp_pc' = [tp_pc EXCEPT ![c] = "attempt"]
    /\ tp_rung' = [tp_rung EXCEPT ![c] = FirstDueRung(tp_price)]
    /\ tp_retry' = [tp_retry EXCEPT ![c] = 0]
    /\ UNCHANGED <<tp_monitoring, tp_price, tp_executed, tp_ok, tp_placed,
                   tp_accepted, tp_history, tp_alerts>>
    /\ UNCHANGED exceptTP

\* One pass of the retry loop up to `await asyncio.wait(...)`.  The tasks are
\* bare coroutines: an interpreter that rejects them raises before any order
\* is sent (`raised`); otherwise the primary order and, from the second pass
\* on, the emergency order reach the exchange, which accepts each or not.
TpAttempt(c, raised, primaryOk, emergencyOk) ==
    /\ tp_pc[c] = "attempt"
    /\ LET k == tp_rung[c]
           okP == ~raised /\ primaryOk
           okE == ~raised /\ tp_retry[c] > 0 /\ emergencyOk
       IN /\ tp_placed' = IF raised THEN tp_placed ELSE tp_placed \cup {<<c, k>>}
          /\ tp_accepted' = IF okP \/ okE THEN tp_accepted \cup {<<c, k>>} ELSE tp_accepted
          /\ tp_ok' = [tp_ok EXCEPT ![c] = okP \/ okE]
    /\ tp_pc' = [tp_pc EXCEPT ![c] = "waiting"]
    /\ UNCHANGED <<tp_monitoring, tp_price, tp_executed, tp_rung, tp_retry,
                   tp_history, tp_alerts>>
    /\ UNCHANGED exceptTP

\* The caller resumes: success is recorded and the rung marked executed; a
\* failed pass sleeps and retries; the last failed pass records the attempt
\* and raises the manual alert.  monitoring_tasks is not touched.
TpResume(c) ==
    /\ tp_pc[c] = "waiting"
    /\ IF tp_ok[c]
       THEN /\ tp_history' = Append(tp_history, [method |-> attempt_method(c), success |-> TRUE,
                                              retry_count |-> tp_retry[c]])
            /\ tp_executed' = [tp_executed EXCEPT ![tp_rung[c]] = TRUE]
            /\ tp_pc' = [tp_pc EXCEPT ![c] = "idle"]
            /\ UNCHANGED <<tp_retry, tp_alerts>>
       ELSE IF tp_retry[c] < max_retries - 1
       THEN /\ tp_retry' = [tp_retry EXCEPT ![c] = @ + 1]
            /\ tp_pc' = [tp_pc EXCEPT ![c] = "attempt"]
            /\ UNCHANGED <<tp_history, tp_executed, tp_alerts>>
       ELSE /\ tp_history' = Append(tp_history, [method |-> attempt_method(c), success |-> FALSE,
                                              retry_count |-> tp_retry[c]])
            /\ tp_alerts' = tp_alerts + 1
            /\ tp_pc' = [tp_pc EXCEPT ![c] = "idle"]
            /\ UNCHANGED <<tp_retry, tp_executed>>
    /\ UNCHANGED <<tp_monitoring, tp_price, tp_rung, tp_ok, tp_placed, tp_accepted>>
    /\ UNCHANGED exceptTP

(***************************************************************************)
(* GuaranteedStopLossExecution: one monitored long position                *)
(***************************************************************************)
Invocations == 1..NumInvocations

\* execution_strategies, in list order.
execution_strategies ==
    <<"primary_limit", "immediate_market", "split_execution",
      "emergency_close", "fallback_hedge">>

\* What the exchange does with one order.
Resp == {"rejected", "unfilled", "partial", "filled"}
Accepted(resp) == resp # "rejected"                \* retCode == 0
FilledQty(resp, qty) ==
    IF resp = "filled" THEN qty ELSE IF resp = "partial" THEN qty \div 2 ELSE 0

Min(a, b) == IF a < b THEN a ELSE b

\* _execute_split_orders: five orders; an accepted order counts its quantity
\* as executed; the last order asks for whatever was not counted.  `early`
\* is the exchange's answer to each of the first four, `last` to the fifth.
split_count == 5
SplitExecutedEarly(total, early) ==
    IF Accepted(early) THEN (split_count - 1) * (total \div split_count) ELSE 0
SplitLastQty(total, early) == total - SplitExecutedEarly(total, early)
SplitExecuted(total, early, last) ==
    SplitExecutedEarly(total, early)
      + (IF Accepted(last) THEN SplitLastQty(total, early) ELSE 0)
SplitFilled(total, early, last) ==
    (split_count - 1) * FilledQty(early, total \div split_count)
      + FilledQty(last, SplitLastQty(total, early))

\* _execute_strategy: the result's "success" for each strategy.
\*   primary_limit    : the order status read back is "Filled"
\*   immediate_market : retCode == 0
\*   split_execution  : executed_qty / total_qty > 0.8
\*   emergency_close  : any of the parallel orders has retCode == 0
\*   fallback_hedge   : retCode == 0
StrategySuccess(name, qty, early, resp) ==
    CASE name = "primary_limit" -> resp = "filled"
      [] name = "immediate_market" -> Accepted(resp)
      [] name = "split_execution" -> SplitExecuted(qty, early, resp) * 10 > qty * 8
      [] name = "emergency_close" -> Accepted(early) \/ Accepted(resp)
      [] name = "fallback_hedge" -> Accepted(resp)

\* The exchange position after the strategy's orders.  Closing orders are
\* reduce-only.  The hedge order is sent on the side opposite to the closing
\* side, without reduce-only.
StrategyExchange(name, qty, early, resp, size) ==
    CASE name = "primary_limit" -> size - Min(size, FilledQty(resp, qty))
      [] name = "immediate_market" -> size - Min(size, FilledQty(resp, qty))
      [] name = "split_execution" -> size - Min(size, SplitFilled(qty, early, resp))
      [] name = "emergency_close" ->
            size - Min(size, FilledQty(early, qty) + FilledQty(resp, qty))
      [] name = "fallback_hedge" -> size + FilledQty(resp, qty)

StrategyStatus(name, ok) ==
    CASE name = "primary_limit" -> IF ok THEN "filled" ELSE "failed"
      [] name = "immediate_market" -> IF ok THEN "market_filled" ELSE "failed"
      [] name = "split_execution" -> "split_executed"
      [] name = "emergency_close" -> IF ok THEN "emergency_executed" ELSE "failed"
      [] name = "fallback_hedge" -> IF ok THEN "hedge_executed" ELSE "failed"

break_never(ok) == FALSE

\* The `break` of the strategy loop.
break_on_success(ok) == ok

\* execute_guaranteed_stop_loss, up to the first strategy.
SlInvoke(i) ==
    /\ sl_pc[i] = "idle"
    /\ IF sl_monitored
       THEN /\ sl_attempts' = sl_attempts + 1
            /\ sl_pc' = [sl_pc EXCEPT ![i] = "running"]
            /\ UNCHANGED sl_result
       ELSE /\ sl_pc' = [sl_pc EXCEPT ![i] = "returned"]
            /\ sl_result' = [sl_result EXCEPT ![i] = "not_found"]
            /\ UNCHANGED sl_attempts
    /\ UNCHANGED <<sl_monitored, sl_idx, sl_backup, sl_history, sl_alerts, sl_exch>>
    /\ UNCHANGED exceptSL

\* The tail of execute_guaranteed_stop_loss: the record, the removal from
\* sl_config "whether it succeeded or failed", the alert on failure.
SlFinalize(i, ok, name) ==
    /\ sl_history' = << [execution_successful |-> ok,
                         failsafe_used |-> IF ok THEN name ELSE "none"] >>
    /\ sl_monitored' = FALSE
    /\ sl_alerts' = IF ok THEN sl_alerts ELSE sl_alerts + 1
    /\ sl_result' = [sl_result EXCEPT ![i] = IF ok THEN "success" ELSE "failed"]
    /\ sl_pc' = [sl_pc EXCEPT ![i] = "returned"]

\* One pass of the strategy loop: the strategy runs against the exchange, its
\* result is appended to backup_methods, and the loop breaks on success or
\* sleeps before the next pass.
SlStrategy(i, early, resp) ==
    /\ sl_pc[i] = "running"
    /\ LET name == execution_strategies[sl_idx[i]]
           ok == StrategySuccess(name, SlSize, early, resp)
       IN /\ sl_exch' = StrategyExchange(name, SlSize, early, resp, sl_exch)
          /\ sl_backup' = [sl_backup EXCEPT ![i] =
                Append(@, [name |-> name, status |-> StrategyStatus(name, ok), success |-> ok])]
          /\ IF break_on_success(ok)
             THEN /\ SlFinalize(i, TRUE, name)
                  /\ UNCHANGED sl_idx
             ELSE /\ IF sl_idx[i] < Len(execution_strategies)
                     THEN /\ sl_idx' = [sl_idx EXCEPT ![i] = @ + 1]
                          /\ UNCHANGED sl_pc
                     ELSE /\ sl_pc' = [sl_pc EXCEPT ![i] = "finishing"]
                          /\ UNCHANGED sl_idx
                  /\ UNCHANGED <<sl_history, sl_monitored, sl_alerts, sl_result>>
    /\ UNCHANGED sl_attempts
    /\ UNCHANGED exceptSL

\* After the sleep that follows the last failed strategy.
SlExhausted(i) ==
    /\ sl_pc[i] = "finishing"
    /\ SlFinalize(i, FALSE, "none")
    /\ UNCHANGED <<sl_attempts, sl_idx, sl_backup, sl_exch>>
    /\ UNCHANGED exceptSL

(***************************************************************************)
(* Initial states                                                          *)
(***************************************************************************)
\* TradingModeManager.__init__, with the per-mode limits scaled down to the
\* bounds of the model (the code ships 5/30 slots, 10/100 trades a day and
\* 1800/60 seconds; update_mode_config may set any value).
ModeManagerInit ==
    /\ enabled = [m \in Modes |-> TRUE]
    /\ max_positions \in [Modes -> 1..MaxCap]
    /\ max_positions["conservative"] = 1
    /\ min_interval \in [Modes -> {0, 1}]
    /\ min_interval["conservative"] = 1
    /\ max_daily_trades \in [Modes -> {1, NumRequests}]
    /\ max_daily_trades["conservative"] = 1
    /\ active_positions = [m \in Modes |-> <<>>]
    /\ daily_trades = [m \in Modes |-> 0]
    /\ last_trade_time = [m \in Modes |-> None]
    /\ last_reset_date = Date(0)
    /\ now = 0
    /\ nextPid = 1
    /\ reqPc = [r \in Requests |-> "new"]
    /\ reqReason = [r \in Requests |-> "none"]

(***************************************************************************)
(* GuaranteedStopLossExecution: the monitoring check and the avoidance      *)
(***************************************************************************)
\* A position's first stop, one per cent from the entry.
InitialStop(side) ==
    IF side \in {"BUY", "Buy"} THEN EntryPrice - EntryPrice \div 100
    ELSE EntryPrice + EntryPrice \div 100

NoConfig == [side |-> "none", current_stop_loss |-> 0, failsafe_levels |-> {}]
NoResult == [trigger_execution |-> FALSE, reason |-> "none"]
Sides == {"Buy", "Sell"}

\* _calculate_failsafe_levels: 0.2 %, 0.5 % and 1.0 % beyond the stop.
calculate_failsafe_levels(stop, side) ==
    IF side = "Buy"
    THEN {(stop * 998) \div 1000, (stop * 995) \div 1000, (stop * 990) \div 1000}
    ELSE {(stop * 1002) \div 1000, (stop * 1005) \div 1000, (stop * 1010) \div 1000}

\* start_position_monitoring: the config is stored under a fresh monitoring
\* id.
start_position_monitoring(side) ==
    /\ ~sl_monitored
    /\ sl_history = <<>>
    /\ \A i \in Invocations : sl_pc[i] = "idle"
    /\ sl_monitored' = TRUE
    /\ sl_attempts' = 0
    /\ sl_config' =
          [side |-> side, current_stop_loss |-> InitialStop(side),
           failsafe_levels |-> calculate_failsafe_levels(InitialStop(side), side)]
    /\ UNCHANGED <<sl_pc, sl_idx, sl_backup, sl_result, sl_history, sl_alerts, sl_exch>>
    /\ UNCHANGED <<mark_price, false_breakout_history, avoidance_active, check_result>>
    /\ UNCHANGED <<tpVars, monVars, hcVars>>
    /\ UNCHANGED <<admVars, rapidVars, cpsVars, ledVars, pmVars, stopVars, cssVars, emVars,
                   syncVars, hfVars>>

\* The mark price of the position moves at the exchange.
MarkPrices ==
    {EntryPrice + k * (EntryPrice \div 100) : k \in {-2, -1, 0, 1, 2}}
MarkPriceMove(p) ==
    /\ p # mark_price
    /\ mark_price' = p
    /\ UNCHANGED <<sl_config, false_breakout_history, avoidance_active,
                   check_result>>
    /\ UNCHANGED <<tpVars, monVars, hcVars, slVars>>
    /\ UNCHANGED <<admVars, rapidVars, cpsVars, ledVars, pmVars, stopVars, cssVars, emVars,
                   syncVars, hfVars>>

\* What a detector answers: whether it fired, and its confidence in per cent.
Negative == [hit |-> FALSE, confidence |-> 0]
Positive(c) == [hit |-> TRUE, confidence |-> c]

\* Market data whose frames show noise, thin liquidity and manipulation.
live_market_data(symbol) ==
    [available |-> TRUE, fake_breakout |-> Negative, noise |-> Positive(90),
     liquidity |-> Positive(90), manipulation |-> Positive(90)]

\* _get_market_data: the body is `pass`; the caller receives None.
get_market_data(symbol) == [available |-> FALSE]

\* _detect_fake_breakout, _analyze_temporary_noise,
\* _analyze_liquidity_conditions, _detect_market_manipulation: each reads the
\* frames of market_data inside a try block; without market data the
\* AttributeError is caught and the detector answers negative.
detector(md, name) == IF md.available THEN md[name] ELSE Negative

\* _make_avoidance_decision: the weighted score, in thousandths, against 0.6
\* and 0.8.
make_avoidance_decision(fb, nz, lq, mp) ==
    LET weigh(r, w) == IF r.hit THEN r.confidence * w ELSE 0
        avoidance_score == weigh(fb, 4) + weigh(nz, 3) + weigh(lq, 2) + weigh(mp, 3)
        should_avoid == avoidance_score >= 600
    IN [should_execute_stop |-> ~should_avoid,
        avoidance_triggered |-> should_avoid,
        temporary_delay |-> IF ~should_avoid THEN 0
                            ELSE IF avoidance_score >= 800 THEN 300 ELSE 120]

\* evaluate_stop_loss_trigger up to the decision.
evaluate_stop_loss_trigger(md) ==
    make_avoidance_decision(detector(md, "fake_breakout"), detector(md, "noise"),
                            detector(md, "liquidity"), detector(md, "manipulation"))

\* The trigger test of _check_position_status: the stop, then the failsafe
\* levels.
should_trigger(config, price) ==
    \/ config.side = "Buy" /\ price <= config.current_stop_loss
    \/ config.side = "Sell" /\ price >= config.current_stop_loss
    \/ \E level \in config.failsafe_levels :
          \/ config.side = "Buy" /\ price <= level
          \/ config.side = "Sell" /\ price >= level

\* _check_position_status.
check_position_status(config, answered, decision) ==
    IF ~answered THEN [trigger_execution |-> FALSE, reason |-> "closed"]
    ELSE IF ~should_trigger(config, mark_price)
         THEN [trigger_execution |-> FALSE, reason |-> "quiet"]
    ELSE IF ~decision.should_execute_stop
         THEN [trigger_execution |-> FALSE, reason |-> "avoidance"]
    ELSE [trigger_execution |-> TRUE, reason |-> "stop"]

\* monitor_all_positions, called once the position's check interval has
\* passed: the exchange answers with the position (`answered`) or not; a
\* trigger goes through evaluate_stop_loss_trigger, which records its decision
\* (_update_avoidance_history).
monitor_all_positions(answered) ==
    /\ sl_monitored
    /\ LET config == sl_config
           decision == evaluate_stop_loss_trigger(get_market_data("BTCUSDT"))
           evaluated == answered /\ should_trigger(config, mark_price)
       IN /\ check_result' = check_position_status(config, answered, decision)
          /\ false_breakout_history' =
                IF evaluated THEN Min(false_breakout_history + 1, 10)
                ELSE false_breakout_history
          /\ avoidance_active' =
                IF evaluated
                THEN (IF decision.avoidance_triggered THEN decision.temporary_delay ELSE 0)
                ELSE avoidance_active
    /\ UNCHANGED <<sl_config, mark_price>>
    /\ UNCHANGED <<tpVars, monVars, hcVars, slVars>>
    /\ UNCHANGED <<admVars, rapidVars, cpsVars, ledVars, pmVars, stopVars, cssVars, emVars,
                   syncVars, hfVars>>

\* GuaranteedStopLossExecution.__init__: nothing monitored; the position is
\* open at the exchange.
GuaranteedStopLossInit ==
    /\ sl_monitored = FALSE
    /\ sl_attempts = 0
    /\ sl_pc = [i \in Invocations |-> "idle"]
    /\ sl_idx = [i \in Invocations |-> 1]
    /\ sl_backup = [i \in Invocations |-> <<>>]
    /\ sl_result = [i \in Invocations |-> "none"]
    /\ sl_history = <<>>
    /\ sl_alerts = 0
    /\ sl_exch = SlSize
    /\ sl_config = NoConfig
    /\ mark_price = EntryPrice
    /\ false_breakout_history = 0
    /\ avoidance_active = 0
    /\ check_result = NoResult

\* The same with the limits fixed, for the components that do not vary them.
ModeManagerInitFixed ==
    /\ ModeManagerInit
    /\ max_positions["scalping"] = MaxCap
    /\ min_interval["scalping"] = 0
    /\ max_daily_trades["scalping"] = NumRequests

(***************************************************************************)
(* EmergencyStopLossSystem                                                 *)
(***************************************************************************)
\* The five detectors in the order _assess_emergency_level reads them, each
\* with the number of signals from which it reports `detected` and its
\* confidence per signal in hundredths.
Detectors == <<"black_swan", "extreme_volatility", "liquidity_crisis", "drawdown_crisis",
               "system_failure">>
MaxBlackSwanSignals == 4     \* _detect_black_swan_events tests four conditions
DetectedFrom == [black_swan |-> 2, extreme_volatility |-> 2, liquidity_crisis |-> 1,
                 drawdown_crisis |-> 1, system_failure |-> 1]
ConfidencePerSignal == [black_swan |-> 30, extreme_volatility |-> 35, liquidity_crisis |-> 40,
                        drawdown_crisis |-> 45, system_failure |-> 50]

\* What a detector returns for `severity` signals.
detection(d, severity) ==
    [detected |-> severity >= DetectedFrom[d], severity |-> severity,
     confidence |-> Min(severity * ConfidencePerSignal[d], 100)]

\* severity_score in hundredths: severity * confidence over the detected.
RECURSIVE SeverityScore(_, _)
SeverityScore(results, i) ==
    IF i > Len(Detectors) THEN 0
    ELSE (IF results[Detectors[i]].detected
          THEN results[Detectors[i]].severity * results[Detectors[i]].confidence ELSE 0)
         + SeverityScore(results, i + 1)

\* The one sum that binary floating point leaves below its decimal value:
\* 1.2 + 1.4 + 0.4 is 2.9999999999999996.
FloatBelow(results) ==
    /\ results["black_swan"].severity = 2
    /\ results["extreme_volatility"].severity = 2
    /\ results["liquidity_crisis"].severity = 1
    /\ results["drawdown_crisis"].severity = 0
    /\ results["system_failure"].severity = 0

\* _assess_emergency_level.  `triggers` keeps, per detected detector, the
\* number of signals its trigger line lists.
assess_emergency_level(results) ==
    LET score == SeverityScore(results, 1)
        level == IF score >= 300 /\ ~FloatBelow(results) THEN "emergency"
                 ELSE IF score >= 200 THEN "critical"
                 ELSE IF score >= 100 THEN "warning"
                 ELSE "normal"
        found == {i \in 1..Len(Detectors) : results[Detectors[i]].detected}
    IN [emergency_level |-> level,
        triggers |-> [d \in {Detectors[i] : i \in found} |-> results[d].severity],
        affected_positions |-> IF level \in {"emergency", "critical"} THEN "all"
                               ELSE IF level = "warning" THEN "high_risk" ELSE "none",
        immediate_action_required |-> level \in {"emergency", "critical"}]

\* _get_default_emergency_result
default_emergency_result ==
    [emergency_level |-> "normal", triggers |-> <<>>, affected_positions |-> "none",
     immediate_action_required |-> FALSE]

\* monitor_emergency_conditions: `signals` gives the number of signals each
\* detector found; the history update sets system_status.
monitor_emergency_conditions(signals) ==
    /\ LET results == [d \in DOMAIN signals |-> detection(d, signals[d])]
           assessment == assess_emergency_level(results)
       IN /\ em_assessment' = assessment
          /\ em_status' = assessment.emergency_level
    /\ UNCHANGED em_closed
    /\ UNCHANGED exceptEmergency

\* The positions handed to execute_emergency_stop_loss: a long in loss past
\* the high-risk mark, a long in a small loss, and a long in profit.
EmergencyPositions ==
    {[id |-> 1, losing |-> TRUE, high_risk |-> TRUE],
     [id |-> 2, losing |-> TRUE, high_risk |-> FALSE],
     [id |-> 3, losing |-> FALSE, high_risk |-> FALSE]}

\* The positions execute_emergency_stop_loss tries to close at each level.
EmergencyTargets(positions, emergency_level) ==
    IF emergency_level = "emergency" THEN positions
    ELSE IF emergency_level = "critical" THEN {p \in positions : p.losing}
    ELSE IF emergency_level = "warning" THEN {p \in positions : p.high_risk}
    ELSE {}

\* execute_emergency_stop_loss with the level of the last assessment;
\* `accepted` are the positions whose close order the exchange accepts.
execute_emergency_stop_loss(positions, emergency_level, accepted) ==
    /\ em_closed' = {p.id : p \in EmergencyTargets(positions, emergency_level) \cap accepted}
    /\ UNCHANGED <<em_status, em_assessment>>
    /\ UNCHANGED exceptEmergency

\* EmergencyStopLossSystem.__init__
EmergencyInit ==
    /\ em_status = "normal"
    /\ em_assessment = default_emergency_result
    /\ em_closed = {}

NoCycle == [pid |-> 0, fired |-> 0, triggered |-> {}]
RapidInit ==
    /\ rps_positions = <<>>
    /\ rps_targets = <<>>
    /\ ass_stops = <<>>
    /\ rps_cycle = NoCycle
    /\ exit_actions = <<>>

\* ConservativeProfitSystem.__init__; no /execute-entry request yet.
ConservativeInit ==
    /\ cps_positions = <<>>
    /\ cps_targets = <<>>
    /\ cps_trailing = <<>>
    /\ cps_highest = <<>>
    /\ entPc = [e \in EntryRequests |-> "new"]

\* ConservativeStopSystem.__init__.
ConservativeStopInit ==
    /\ css_positions = <<>>
    /\ css_stops = <<>>
    /\ css_breakeven_moved = <<>>
    /\ css_action = <<>>

\* The exchange lists no position.
ExchangeInit ==
    /\ exch_size = [s \in Symbols |-> Unlisted] /\ sync_zero = {} /\ reset_pc = "idle"
    /\ sync_running = TRUE /\ sync_failed = FALSE /\ poll_failed = FALSE

\* PortfolioManager.__init__.
PortfolioInit == pm_positions = [s \in Symbols |-> <<>>]

\* AdvancedTrailingTakeProfit.__init__ and DynamicStopLossAdjustment.__init__:
\* nothing trailed, no adjustment history.  A position's first stop lies one
\* per cent from the entry.
NoStatus == [active |-> FALSE]
NoAdjustment == [new_stop_loss |-> 0, original_sl |-> 0, adjustment_type |-> "init"]

StopAdjustInit(tside, dside) ==
    /\ ttp_side = tside
    /\ ttp_status = NoStatus
    /\ dsl_side = dside
    /\ dsl_breakeven = FALSE
    /\ dsl_result = NoAdjustment
    /\ dsl_price = EntryPrice

\* HighFrequencyOptimizer.__init__: the breaker closed, nothing in flight.
OptimizerInit ==
    /\ hf_now = 0
    /\ circuit_breaker_active = FALSE
    /\ circuit_breaker_until = None
    /\ consecutive_failures = 0
    /\ hf_pc = [c \in Callers |-> "idle"]
    /\ hf_priority = [c \in Callers |-> "normal"]
    /\ hf_result = [c \in Callers |-> "none"]

Idle ==
    RapidInit /\ ConservativeInit /\ ConservativeStopInit /\ ExchangeInit /\ PortfolioInit
    /\ EmergencyInit /\ OptimizerInit
    /\ StopAdjustInit("BUY", "Buy")

\* No round of the health check has run.
NoCheck == [ws_alive |-> TRUE, before |-> default_polling_interval,
            after |-> default_polling_interval]

\* GuaranteedExecutionSystem.__init__: nothing monitored.
GuaranteedExecutionInit ==
    /\ tp_monitoring = FALSE
    /\ tp_price = EntryPrice
    /\ tp_executed = [k \in Rungs |-> FALSE]
    /\ tp_pc = [c \in Channels |-> "idle"]
    /\ tp_rung = [c \in Channels |-> 1]
    /\ tp_retry = [c \in Channels |-> 0]
    /\ tp_ok = [c \in Channels |-> FALSE]
    /\ tp_placed = {}
    /\ tp_accepted = {}
    /\ tp_history = <<>>
    /\ tp_alerts = 0
    /\ tp_task = "none"
    /\ polling_interval = default_polling_interval
    /\ ws_connections = "none"
    /\ hc_log = NoCheck
    /\ tp_ws_up = 0
    /\ tp_ws_down = 0
    /\ tp_polling = 0
    /\ tp_timeout = 0
    /\ tp_health = 0

(***************************************************************************)
(* Admission: the scalping entry route against the mode manager            *)
(***************************************************************************)
InitAdmission ==
    ModeManagerInit /\ Idle /\ GuaranteedExecutionInit /\ GuaranteedStopLossInit

NextAdmission ==
    \/ Tick
    \/ \E b \in BOOLEAN : toggle_mode("scalping", b)
    \/ \E r \in Requests : ExecuteScalpingCheck(r)
    \/ \E r \in Requests, executed \in BOOLEAN : ExecuteScalpingComplete(r, executed, "BUY")

SpecAdmission == InitAdmission /\ [][NextAdmission]_vars

ScalpingRegistered == {r \in Requests : reqPc[r] = "registered"}

\* C1: with a cap of N positions, N+1 concurrent open requests (each checks,
\* awaits the exchange, then registers) end with exactly N approved: when
\* every request has returned, none failed at the exchange and none was turned
\* away by a rule other than the position cap, the approved ones number
\* exactly the cap and the registry holds no more than the cap.
C1_ExactlyCapApproved ==
    (/\ max_positions["scalping"] = NumRequests - 1
     /\ \A r \in Requests : reqPc[r] \in {"registered", "rejected"}
     /\ \A r \in Requests : reqPc[r] = "rejected" => reqReason[r] = "max_positions")
    => (/\ Cardinality(ScalpingRegistered) = max_positions["scalping"]
        /\ Len(active_positions["scalping"]) <= max_positions["scalping"])

(***************************************************************************)
(* Take-profit execution: both channels against one position               *)
(***************************************************************************)
InitTP ==
    ModeManagerInitFixed /\ Idle /\ GuaranteedExecutionInit /\ GuaranteedStopLossInit

\* One start of the monitoring is followed.
NextTP ==
    \/ ~tp_monitoring /\ ensure_take_profit_execution
    \/ \E p \in TpPrices : TpPriceMove(p)
    \/ \E c \in Channels : TpObserve(c)
    \/ \E c \in Channels, raised, primaryOk, emergencyOk \in BOOLEAN :
          TpAttempt(c, raised, primaryOk, emergencyOk)
    \/ \E c \in Channels : TpResume(c)

SpecTP == InitTP /\ [][NextTP]_vars

\* C2: when the realtime channel and the polling channel both observe the
\* same rung as hit, only one of them drives its execution and the other
\* places no order: for no rung do both channels get an order accepted.
C2_OneChannelExecutes ==
    \A k \in Rungs : Cardinality({c \in Channels : <<c, k>> \in tp_accepted}) <= 1

(***************************************************************************)
(* Stop-loss execution: strategy escalation                                *)
(***************************************************************************)
InitSL ==
    ModeManagerInitFixed /\ Idle /\ GuaranteedExecutionInit /\ GuaranteedStopLossInit

NextSL ==
    \/ start_position_monitoring("Buy")
    \/ \E i \in Invocations : SlInvoke(i)
    \/ \E i \in Invocations, early, resp \in Resp : SlStrategy(i, early, resp)
    \/ \E i \in Invocations : SlExhausted(i)

SpecSL == InitSL /\ [][NextSL]_vars

\* C4: when every execution strategy has been exhausted without a fill, the
\* position's monitoring entry is still present after the failed execution
\* has returned.
C4_MonitoringKeptAfterFailure ==
    \A i \in Invocations : sl_result[i] = "failed" => sl_monitored

\* C5: an exit execution reports success only when the exit was confirmed
\* filled: whenever an execution has returned success, the position is
\* closed at the exchange.
C5_SuccessOnlyWhenFilled ==
    \A i \in Invocations : sl_result[i] = "success" => sl_exch = 0

\* C9: for a triggered stop-loss exit the strategies are attempted in the
\* fixed order limit, market, split, emergency, hedge; a strategy is attempted
\* only after every earlier one has failed, and none is attempted after one
\* has succeeded (the execution has then returned).
C9_FixedOrderEscalation ==
    \A i \in Invocations :
       LET b == sl_backup[i] IN
       /\ Len(b) <= Len(execution_strategies)
       /\ \A j \in 1..Len(b) :
             /\ b[j].name = execution_strategies[j]
             /\ j < Len(b) => ~b[j].success
       /\ (Len(b) > 0 /\ b[Len(b)].success) => sl_pc[i] = "returned"
       /\ sl_pc[i] = "running" => sl_idx[i] = Len(b) + 1

\* An execution that escalated past two failed strategies and stopped at the
\* third, which succeeded.
C9_Witness ==
    \E i \in Invocations :
       /\ Len(sl_backup[i]) = 3
       /\ ~sl_backup[i][1].success /\ ~sl_backup[i][2].success
       /\ sl_backup[i][3].success
       /\ sl_result[i] = "success"

(***************************************************************************)
(* The ledger: entries, profit checks, the exchange and reconciliation     *)
(***************************************************************************)
InitLedger ==
    ModeManagerInitFixed /\ Idle /\ GuaranteedExecutionInit /\ GuaranteedStopLossInit

CheckPrices == {EntryPrice - 10, EntryPrice + 25, EntryPrice + 150}

\* Rapid positions enter this ledger through reconciliation (a scalping
\* entry records no symbol and is covered by SpecAdmission).
NextLedger ==
    \/ \E s \in Symbols : ExecuteEntryCheck(1, s)
    \/ \E s \in Symbols, executed \in BOOLEAN : ExecuteEntryComplete(1, s, executed, Quantity)
    \/ \E s \in Symbols, size \in ExchSizes : ExchangeChange(s, size)
    \/ \E fetched \in BOOLEAN : sync_loop(fetched)
    \/ \E pid \in DOMAIN rps_positions, price \in CheckPrices, condsOk, holdOk \in BOOLEAN :
          check_profit_targets(pid, price, condsOk, holdOk)
    \/ \E pid \in DOMAIN cps_positions, price \in CheckPrices :
          check_profit_conditions(pid, price)

SpecLedger == InitLedger /\ [][NextLedger]_vars

\* C3: invoking the exit path twice for the same triggered rung of a position
\* acts once; the second invocation finds the rung switched off and returns
\* no further exit action for it.
C3_RungFiresOnce ==
    \A pid \in DOMAIN exit_actions : \A k \in 1..MaxTargets : exit_actions[pid][k] <= 1

\* C6: every position imported from the exchange by a reconciliation cycle
\* carries an active stop level and an active profit target.
C6_ImportedDefended ==
    \A pid \in DOMAIN rps_positions :
        rps_positions[pid].external =>
            /\ pid \in DOMAIN rps_targets
            /\ \E k \in 1..Len(rps_targets[pid]) : rps_targets[pid][k].is_active
            /\ pid \in DOMAIN ass_stops
            /\ \E k \in 1..Len(ass_stops[pid]) : ass_stops[pid][k].is_active

\* The ledger positions present before and after a step.
Persisting == LocalIds \cap (DOMAIN rps_positions' \cup DOMAIN cps_positions')
Remaining(pid) ==
    IF pid \in DOMAIN cps_positions THEN cps_positions[pid].remaining_size
    ELSE rps_positions[pid].remaining_size

InitPortfolio ==
    ModeManagerInitFixed /\ Idle /\ GuaranteedExecutionInit /\ GuaranteedStopLossInit

EntryQuantities == {(Quantity \div 5) * 2, Quantity}

NextPortfolio ==
    \/ \E e \in EntryRequests, s \in Symbols : ExecuteEntryCheck(e, s)
    \/ \E e \in EntryRequests, s \in Symbols, executed \in BOOLEAN, qty \in EntryQuantities :
          ExecuteEntryComplete(e, s, executed, qty)
    \/ rebalance_portfolio
    \/ \E s \in Symbols, i \in 1..MaxPerSymbolLen : close_position(s, i)
    \/ \E b \in BOOLEAN : toggle_mode("conservative", b)
    \/ \E pid \in DOMAIN cps_positions, price \in CheckPrices :
          check_profit_conditions(pid, price)

SpecPortfolio == InitPortfolio /\ [][NextPortfolio]_vars

\* C8: the status of a position is CLOSED exactly when nothing of it remains.
C8_ClosedIffNothingRemains ==
    \A s \in Symbols : \A j \in 1..Len(pm_positions[s]) :
        pm_positions[s][j].status = "CLOSED" <=> pm_positions[s][j].quantity = 0

(***************************************************************************)
(* AdvancedTrailingTakeProfit: the trailing stop of one position           *)
(***************************************************************************)
\* Market inputs: the ATR, the swing level and the parabolic SAR as read from
\* the klines, each None when its request fails or finds nothing.
AtrValues == {100}
StructureStops == {EntryPrice}
SarStops == {EntryPrice + 50}
TtpPriceMoves == {EntryPrice - 300, EntryPrice - 150, EntryPrice + 150, EntryPrice + 300}

RECURSIVE SetMax(_)
SetMax(S) == LET x == CHOOSE y \in S : TRUE
             IN IF S = {x} THEN x ELSE Max(x, SetMax(S \ {x}))
RECURSIVE SetMin(_)
SetMin(S) == LET x == CHOOSE y \in S : TRUE
             IN IF S = {x} THEN x ELSE Min(x, SetMin(S \ {x}))

\* _calculate_atr_trailing: current price -/+ 1.5 ATR.
calculate_atr_trailing(side, price, atr) ==
    IF side = "BUY" THEN price - (atr * 3) \div 2 ELSE price + (atr * 3) \div 2

\* _calculate_percentage_trailing: 2 % off the extreme price of the status,
\* off the current price while the position is not trailed yet.
calculate_percentage_trailing(status, side, price) ==
    LET base == IF status.active
                THEN (IF side = "BUY" THEN status.highest_price ELSE status.lowest_price)
                ELSE price
    IN IF side = "BUY" THEN base - (base * 2) \div 100 ELSE base + (base * 2) \div 100

\* _calculate_optimal_trailing_stop: the most favourable of the stops that
\* could be computed; position['stop_loss'] when the computation raises.
calculate_optimal_trailing_stop(status, side, price, atr, structure, sar, raised) ==
    LET stops == (IF atr = None THEN {} ELSE {calculate_atr_trailing(side, price, atr)})
                 \cup {calculate_percentage_trailing(status, side, price)}
                 \cup (IF structure = None THEN {} ELSE {structure})
                 \cup (IF sar = None THEN {} ELSE {sar})
    IN IF raised THEN InitialStop(side)
       ELSE IF side = "BUY" THEN SetMax(stops) ELSE SetMin(stops)

Abs(x) == IF x >= 0 THEN x ELSE -x

\* _activate_trailing
activate_trailing(side, price, atr, structure, sar, raised) ==
    LET initial_stop ==
            calculate_optimal_trailing_stop(NoStatus, side, price, atr, structure, sar, raised)
    IN [active |-> TRUE,
        current_stop |-> initial_stop,
        highest_price |-> IF side = "BUY" THEN price ELSE EntryPrice,
        lowest_price |-> IF side = "BUY" THEN EntryPrice ELSE price,
        trailing_distance |-> Abs(price - initial_stop)]

\* The comparison that lets a newly computed stop replace the current one.
stop_improves(side, new_stop, current_stop) ==
    IF side = "BUY" THEN new_stop > current_stop ELSE new_stop < current_stop

\* _update_trailing: on a new extreme price the stop is recomputed and taken
\* only when it improves on the current one.
update_trailing(status, side, price, atr, structure, sar, raised) ==
    LET extreme == IF side = "BUY" THEN price > status.highest_price
                                   ELSE price < status.lowest_price
        moved == IF ~extreme THEN status
                 ELSE IF side = "BUY" THEN [status EXCEPT !.highest_price = price]
                 ELSE [status EXCEPT !.lowest_price = price]
        new_stop == calculate_optimal_trailing_stop(moved, side, price, atr, structure,
                                                    sar, raised)
    IN IF extreme /\ stop_improves(side, new_stop, moved.current_stop)
       THEN [moved EXCEPT !.current_stop = new_stop]
       ELSE moved

\* _tighten_stops: a stop 0.5 % from the price, taken only when it improves.
tighten_stops(status, side, price) ==
    LET new_stop == IF side = "BUY" THEN price - (price * 5) \div 1000
                                    ELSE price + (price * 5) \div 1000
    IN IF stop_improves(side, new_stop, status.current_stop)
       THEN [status EXCEPT !.current_stop = new_stop]
       ELSE status

\* manage_trailing_profit: from 1 % profit on, trailing starts or is updated.
manage_trailing_profit(price, atr, structure, sar, raised) ==
    /\ LET profit == IF ttp_side = "BUY" THEN price - EntryPrice ELSE EntryPrice - price
       IN ttp_status' =
             IF profit * 100 >= EntryPrice
             THEN IF ~ttp_status.active
                  THEN activate_trailing(ttp_side, price, atr, structure, sar, raised)
                  ELSE update_trailing(ttp_status, ttp_side, price, atr, structure, sar, raised)
             ELSE ttp_status
    /\ UNCHANGED <<ttp_side, dsl_side, dsl_breakeven, dsl_result, dsl_price>>
    /\ UNCHANGED exceptStops

\* One round of _monitor_position (the position carries no tp_levels): the
\* ticker price, _update_trailing, and _tighten_stops on market weakness.
monitor_position(price, atr, structure, sar, raised, weak) ==
    /\ ttp_status.active
    /\ LET updated == update_trailing(ttp_status, ttp_side, price, atr, structure, sar, raised)
       IN ttp_status' = IF weak THEN tighten_stops(updated, ttp_side, price) ELSE updated
    /\ UNCHANGED <<ttp_side, dsl_side, dsl_breakeven, dsl_result, dsl_price>>
    /\ UNCHANGED exceptStops

(***************************************************************************)
(* DynamicStopLossAdjustment: adjust_stop_loss                             *)
(***************************************************************************)
DslPrices == {EntryPrice - 300, EntryPrice - 150, EntryPrice + 150, EntryPrice + 300}
\* Stops the caller may hold: the first stop of the position, and a stop
\* already moved past the entry in the position's favour.
DslStops(side) ==
    {InitialStop(side), IF side = "Buy" THEN EntryPrice + 50 ELSE EntryPrice - 50}
VolatilityRatios == {"surge", "steady", "drop"}     \* ratio 2.0, 1.0, 0.5
Regimes == {"STRONG_TREND", "VOLATILE", "RANGE"}    \* each detected with confidence

NotAdjusting(current_sl, type) ==
    [should_adjust |-> FALSE, new_stop_loss |-> current_sl, adjustment_type |-> type,
     confidence |-> 0]

\* A breakeven move that waits for 2 % of profit.
breakeven_at_two_percent(already, price, current_sl, side) ==
    LET profit == IF side = "Buy" THEN price - EntryPrice ELSE EntryPrice - price
        breakeven_price == IF side = "Buy" THEN EntryPrice + EntryPrice \div 1000
                                           ELSE EntryPrice - EntryPrice \div 1000
    IN IF ~already /\ profit > 0 /\ profit * 100 >= EntryPrice * 2
       THEN [should_adjust |-> TRUE, new_stop_loss |-> breakeven_price,
             adjustment_type |-> "breakeven", confidence |-> 95]
       ELSE NotAdjusting(current_sl, "breakeven")

\* _evaluate_breakeven_move: once, at 1.5 % profit, to the entry plus 0.1 %.
evaluate_breakeven_move(already, price, current_sl, side) ==
    LET profit == IF side = "Buy" THEN price - EntryPrice ELSE EntryPrice - price
        breakeven_price == IF side = "Buy" THEN EntryPrice + EntryPrice \div 1000
                                           ELSE EntryPrice - EntryPrice \div 1000
    IN IF ~already /\ profit > 0 /\ profit * 1000 >= EntryPrice * 15
       THEN [should_adjust |-> TRUE, new_stop_loss |-> breakeven_price,
             adjustment_type |-> "breakeven", confidence |-> 95]
       ELSE NotAdjusting(current_sl, "breakeven")

\* _evaluate_trailing_stop: two ATRs from the price, after a 2 % move.
evaluate_trailing_stop(price, current_sl, side, atr) ==
    LET new_trailing_sl == IF side = "Buy" THEN price - 2 * atr ELSE price + 2 * atr
        should_trail == IF side = "Buy" THEN new_trailing_sl > current_sl
                                        ELSE new_trailing_sl < current_sl
    IN IF should_trail /\ Abs(price - EntryPrice) * 100 >= EntryPrice * 2
       THEN [should_adjust |-> TRUE, new_stop_loss |-> new_trailing_sl,
             adjustment_type |-> "trailing", confidence |-> 80]
       ELSE NotAdjusting(current_sl, "trailing")

\* _evaluate_volatility_adjustment: the stop distance is doubled when the
\* volatility surges and halved when it drops.
evaluate_volatility_adjustment(price, current_sl, side, ratio) ==
    LET current_distance == Abs(price - current_sl)
        new_distance == IF ratio = "surge" THEN current_distance * 2
                        ELSE current_distance \div 2
    IN IF ratio = "steady" THEN NotAdjusting(current_sl, "volatility")
       ELSE [should_adjust |-> TRUE,
             new_stop_loss |-> IF side = "Buy" THEN price - new_distance
                                               ELSE price + new_distance,
             adjustment_type |-> "volatility", confidence |-> 70]

\* _evaluate_regime_adjustment: 20 % closer in a strong trend, 20 % further
\* in a volatile market.
evaluate_regime_adjustment(price, current_sl, side, regime) ==
    LET current_distance == Abs(price - current_sl)
        new_distance == IF regime = "STRONG_TREND" THEN (current_distance * 8) \div 10
                        ELSE (current_distance * 12) \div 10
        new_sl == IF side = "Buy" THEN price - new_distance ELSE price + new_distance
        closer == IF side = "Buy" THEN new_sl > current_sl ELSE new_sl < current_sl
        further == IF side = "Buy" THEN new_sl < current_sl ELSE new_sl > current_sl
    IN IF regime = "STRONG_TREND" /\ closer
       THEN [should_adjust |-> TRUE, new_stop_loss |-> new_sl,
             adjustment_type |-> "regime", confidence |-> 75]
       ELSE IF regime = "VOLATILE" /\ further
       THEN [should_adjust |-> TRUE, new_stop_loss |-> new_sl,
             adjustment_type |-> "regime", confidence |-> 75]
       ELSE NotAdjusting(current_sl, "regime")

\* Without the safety check the chosen stop would be returned as it is.
unchecked_stop(side, new_sl, current_sl) == new_sl

\* The safety check of _optimize_adjustment: a stop that would move against
\* the position is replaced by the current one.
safety_check(side, new_sl, current_sl) ==
    IF side = "Buy" /\ new_sl < current_sl THEN current_sl
    ELSE IF side = "Sell" /\ new_sl > current_sl THEN current_sl
    ELSE new_sl

\* _optimize_adjustment: the breakeven move if it applies, else the
\* adjustment of the highest confidence, through the safety check.
optimize_adjustment(current_sl, breakeven_result, trailing_result, volatility_result, regime_result, side) ==
    LET adjustments == <<breakeven_result, trailing_result, volatility_result, regime_result>>
        valid == {i \in 1..4 : adjustments[i].should_adjust}
        best == CHOOSE i \in valid :
                   \A j \in valid : \/ adjustments[i].confidence > adjustments[j].confidence
                                    \/ (adjustments[i].confidence = adjustments[j].confidence
                                        /\ i <= j)
        final == IF 1 \in valid THEN adjustments[1] ELSE adjustments[best]
    IN IF valid = {}
       THEN [new_stop_loss |-> current_sl, original_sl |-> current_sl,
             adjustment_type |-> "none"]
       ELSE [new_stop_loss |-> safety_check(side, final.new_stop_loss, current_sl),
             original_sl |-> current_sl,
             adjustment_type |-> final.adjustment_type]

\* adjust_stop_loss for the stop the caller passes in as current_sl; the
\* adjustment is returned and the history keeps the breakeven flag.
adjust_stop_loss(price, current_sl, atr, ratio, regime) ==
    /\ LET res == optimize_adjustment(
                      current_sl,
                      evaluate_breakeven_move(dsl_breakeven, price, current_sl, dsl_side),
                      evaluate_trailing_stop(price, current_sl, dsl_side, atr),
                      evaluate_volatility_adjustment(price, current_sl, dsl_side, ratio),
                      evaluate_regime_adjustment(price, current_sl, dsl_side, regime),
                      dsl_side)
       IN /\ dsl_result' = res
          /\ dsl_breakeven' = (dsl_breakeven \/ res.adjustment_type = "breakeven")
    /\ dsl_price' = price
    /\ UNCHANGED <<ttp_side, ttp_status, dsl_side>>
    /\ UNCHANGED exceptStops

(***************************************************************************)
(* Stop adjustments: trailing take-profit, dynamic stop-loss, conservative *)
(***************************************************************************)
InitStops ==
    /\ ModeManagerInitFixed /\ RapidInit /\ ConservativeInit /\ ConservativeStopInit
    /\ ExchangeInit /\ EmergencyInit /\ OptimizerInit
    /\ PortfolioInit /\ GuaranteedExecutionInit /\ GuaranteedStopLossInit
    /\ \E long \in BOOLEAN : StopAdjustInit(IF long THEN "BUY" ELSE "SELL",
                                             IF long THEN "Buy" ELSE "Sell")

\* What one computation of the optimal stop reads: it raises, or it gets
\* each of the ATR, the swing level and the SAR, or None in its place.
MarketInputs ==
    ({FALSE} \X (AtrValues \cup {None}) \X (StructureStops \cup {None})
             \X (SarStops \cup {None}))
    \cup {<<TRUE, None, None, None>>}

NextStops ==
    \/ \E price \in TtpPriceMoves, m \in MarketInputs :
          manage_trailing_profit(price, m[2], m[3], m[4], m[1])
    \/ \E price \in TtpPriceMoves, m \in MarketInputs, weak \in BOOLEAN :
          monitor_position(price, m[2], m[3], m[4], m[1], weak)
    \/ \E price \in DslPrices, current_sl \in DslStops(dsl_side), atr \in AtrValues,
          ratio \in VolatilityRatios, regime \in Regimes :
          adjust_stop_loss(price, current_sl, atr, ratio, regime)
    \/ \E s \in Symbols : ExecuteEntryCheck(1, s)
    \/ \E s \in Symbols, executed \in BOOLEAN : ExecuteEntryComplete(1, s, executed, Quantity)
    \/ \E pid \in DOMAIN cps_positions, price \in CheckPrices :
          check_profit_conditions(pid, price)

SpecStops == InitStops /\ [][NextStops]_vars

\* C10: once trailing is active, an adjustment never moves the stop of a long
\* position down nor the stop of a short position up.
C10_StopMovesFavourably ==
    [][/\ (ttp_status.active /\ ttp_status'.active) =>
             IF ttp_side = "BUY" THEN ttp_status'.current_stop >= ttp_status.current_stop
                                 ELSE ttp_status'.current_stop <= ttp_status.current_stop
       /\ IF dsl_side = "Buy" THEN dsl_result'.new_stop_loss >= dsl_result'.original_sl
                               ELSE dsl_result'.new_stop_loss <= dsl_result'.original_sl
       /\ \A pid \in DOMAIN cps_trailing \cap DOMAIN cps_trailing' :
             cps_trailing[pid].active =>
                 IF cps_positions[pid].direction = "BUY"
                 THEN cps_trailing'[pid].stop_price >= cps_trailing[pid].stop_price
                 ELSE cps_trailing'[pid].stop_price <= cps_trailing[pid].stop_price]_vars

\* A long position whose trailing stop was raised above its distance at
\* activation, while the safety check held back a volatility adjustment that
\* would have lowered the stop-loss of the adjusted long position.
C10_Witness ==
    /\ ttp_side = "BUY"
    /\ ttp_status.active
    /\ ttp_status.current_stop > ttp_status.highest_price - ttp_status.trailing_distance
    /\ dsl_side = "Buy"
    /\ dsl_result.adjustment_type = "volatility"
    /\ dsl_result.new_stop_loss = dsl_result.original_sl
    /\ \E pid \in DOMAIN cps_trailing : cps_trailing[pid].active

(***************************************************************************)
(* Breakeven migration and stop ladders of the conservative mode           *)
(***************************************************************************)
\* Stop-losses a set-up request may carry: the first stop of the position,
\* and a stop that already locks in half a per cent of profit.
RequestStops(direction) ==
    {InitialStop(direction), IF direction = "BUY" THEN EntryPrice + 50 ELSE EntryPrice - 50}
StopCheckPrices == {EntryPrice - 400, EntryPrice - 250, EntryPrice - 75, EntryPrice + 75,
                    EntryPrice + 250, EntryPrice + 400}

InitBreakeven == InitStops

\* The stop system keeps each position's levels and flag under the position's
\* id and no cycle reads another position's entries: one conservative
\* position is followed at a time, each under a fresh id.

NextBreakeven ==
    \/ \E s \in Symbols, direction \in {"BUY", "SELL"} : \E stop_loss \in RequestStops(direction) :
          /\ DOMAIN css_positions = {}
          /\ setup_conservative_position(nextPid, s, direction, stop_loss)
    \/ \E pid \in DOMAIN css_positions, price \in StopCheckPrices, timeUp \in BOOLEAN :
          check_stop_conditions(pid, price, timeUp)
    \/ \E pid \in DOMAIN css_positions : cleanup_conservative_position(pid)
    \/ \E price \in DslPrices, current_sl \in DslStops(dsl_side), atr \in AtrValues,
          ratio \in VolatilityRatios, regime \in Regimes :
          adjust_stop_loss(price, current_sl, atr, ratio, regime)

SpecBreakeven == InitBreakeven /\ [][NextBreakeven]_vars

\* C11: a breakeven migration never moves a stop in the unfavourable
\* direction: the stop of a long position is not lowered and the stop of a
\* short position is not raised, in the conservative stop system and in the
\* dynamic stop-loss adjustment.
C11_BreakevenNeverUnfavourable ==
    [][/\ \A pid \in DOMAIN css_stops \cap DOMAIN css_stops' :
             (~css_breakeven_moved[pid] /\ css_breakeven_moved'[pid]) =>
                 \A k \in 1..Len(css_stops[pid]) :
                     IF css_positions[pid].direction = "BUY"
                     THEN css_stops'[pid][k].stop_price >= css_stops[pid][k].stop_price
                     ELSE css_stops'[pid][k].stop_price <= css_stops[pid][k].stop_price
       /\ (dsl_result' # dsl_result /\ dsl_result'.adjustment_type = "breakeven") =>
             IF dsl_side = "Buy" THEN dsl_result'.new_stop_loss >= dsl_result'.original_sl
                                 ELSE dsl_result'.new_stop_loss <= dsl_result'.original_sl]_vars

\* C12: the breakeven migration happens once per position.  In the
\* conservative stop system the migration writes the entry plus or minus the
\* fee buffer and sets breakeven_moved; from then on no cycle returns
\* UPDATE_STOP or writes a stop price.  In the dynamic stop-loss adjustment no
\* adjustment of type breakeven is returned once the history holds
\* breakeven_triggered.
C12_BreakevenOnce ==
    [][/\ \A pid \in DOMAIN css_stops \cap DOMAIN css_stops' :
             /\ css_breakeven_moved[pid] =>
                   /\ css_breakeven_moved'[pid]
                   /\ css_stops'[pid] = css_stops[pid]
                   /\ css_action'[pid] # css_action[pid] =>
                         css_action'[pid].action # "UPDATE_STOP"
             /\ (~css_breakeven_moved[pid] /\ css_breakeven_moved'[pid]) =>
                   /\ css_action'[pid].action = "UPDATE_STOP"
                   /\ css_stops'[pid][1].stop_price =
                         breakeven_stop(css_positions[pid].entry_price,
                                        css_positions[pid].direction)
             /\ ~css_breakeven_moved'[pid] => css_stops'[pid] = css_stops[pid]
       /\ dsl_breakeven =>
             /\ dsl_breakeven'
             /\ dsl_result' # dsl_result => dsl_result'.adjustment_type # "breakeven"
       /\ (~dsl_breakeven /\ dsl_breakeven') => dsl_result'.adjustment_type = "breakeven"]_vars

\* A conservative position whose stop was migrated and which a later cycle
\* evaluated without another migration, and an adjusted position whose
\* breakeven adjustment is recorded and was followed by another adjustment.
C12_Witness ==
    /\ \E pid \in DOMAIN css_stops :
          /\ css_breakeven_moved[pid]
          /\ css_action[pid].action # "UPDATE_STOP"
          /\ css_stops[pid][1].stop_price =
                breakeven_stop(css_positions[pid].entry_price, css_positions[pid].direction)
    /\ dsl_breakeven
    /\ dsl_result.adjustment_type \notin {"breakeven", "init"}


\* C13: a stop level or profit target that fired in an evaluation cycle is
\* inactive afterwards (and so cannot fire in a later cycle): the level that
\* the last check_stop_conditions returned as STOP_LOSS is switched off.
C13_FiredLevelDeactivated ==
    \A pid \in DOMAIN css_action :
        css_action[pid].action = "STOP_LOSS" =>
            ~css_stops[pid][css_action[pid].level].is_active

(***************************************************************************)
(* The profit ladder of a scalping position                                *)
(***************************************************************************)
LadderRequests == 1..2
\* Below the entry, between the TIME target and the first PRICE target, past
\* the first, and past all PRICE targets (of a long and of a short).
LadderPrices == {EntryPrice - 60, EntryPrice - 25, EntryPrice - 16, EntryPrice + 16,
                 EntryPrice + 25, EntryPrice + 60}

InitLadder ==
    ModeManagerInitFixed /\ Idle /\ GuaranteedExecutionInit /\ GuaranteedStopLossInit

NextLadder ==
    \/ \E r \in LadderRequests : ExecuteScalpingCheck(r)
    \/ \E r \in LadderRequests, executed \in BOOLEAN, direction \in {"BUY", "SELL"} :
          ExecuteScalpingComplete(r, executed, direction)
    \/ \E pid \in DOMAIN rps_positions, price \in LadderPrices, condsOk, holdOk \in BOOLEAN :
          check_profit_targets(pid, price, condsOk, holdOk)

SpecLadder == InitLadder /\ [][NextLadder]_vars

\* C14: of the active rungs triggered in one evaluation cycle, the rung that
\* fires is the one with the lowest priority number.
C14_LowestPriorityFires ==
    (rps_cycle.fired # 0 /\ rps_cycle.pid \in DOMAIN rps_targets) =>
        \A j \in rps_cycle.triggered :
            rps_targets[rps_cycle.pid][rps_cycle.fired].priority
                <= rps_targets[rps_cycle.pid][j].priority

\* The close percentages (in tenths) of the active targets of a ladder.
RECURSIVE ActivePercentage(_)
ActivePercentage(targets) ==
    IF targets = <<>> THEN 0
    ELSE (IF Head(targets).is_active THEN Head(targets).percentage ELSE 0)
         + ActivePercentage(Tail(targets))

\* C15: for every position, the close percentages of its still-active profit
\* targets sum to at most 1.0 (ten tenths); the targets of the conservative
\* system carry no active flag and all count.
C15_ActivePercentagesAtMostOne ==
    /\ \A pid \in DOMAIN rps_targets : ActivePercentage(rps_targets[pid]) <= 10
    /\ \A pid \in DOMAIN cps_targets :
          ActivePercentage([k \in 1..Len(cps_targets[pid]) |->
                               [is_active |-> TRUE,
                                percentage |-> cps_targets[pid][k].percentage]]) <= 10

(***************************************************************************)
(* Emergency monitoring and the emergency close                            *)
(***************************************************************************)
\* Every number of black-swan signals; of each other detector either no
\* signal or a number of signals it reports as detected.
SignalCounts == [black_swan : 0..MaxBlackSwanSignals, extreme_volatility : {0, 2},
                 liquidity_crisis : {0, 1}, drawdown_crisis : {0, 1},
                 system_failure : {0, 2}]

InitEmergency ==
    ModeManagerInitFixed /\ Idle /\ GuaranteedExecutionInit /\ GuaranteedStopLossInit

NextEmergency ==
    \/ \E signals \in SignalCounts : monitor_emergency_conditions(signals)
    \/ \E accepted \in SUBSET EmergencyPositions :
          execute_emergency_stop_loss(EmergencyPositions, em_status, accepted)

SpecEmergency == InitEmergency /\ [][NextEmergency]_vars

\* C16: when the black-swan detection reports two or more signals, the
\* assessment is an emergency: every position is marked for the immediate
\* close.
C16_BlackSwanIsEmergency ==
    ("black_swan" \in DOMAIN em_assessment.triggers
        /\ em_assessment.triggers["black_swan"] >= 2) =>
       /\ em_assessment.emergency_level = "emergency"
       /\ em_assessment.affected_positions = "all"
       /\ em_assessment.immediate_action_required

(***************************************************************************)
(* The method recorded for an exit the polling backup started.             *)
(***************************************************************************)

\* C18: an exit execution started by the polling backup records an
\* ExecutionAttempt whose method is polling_backup: every step in which the
\* polling channel finishes an execution and appends its attempt to the
\* history appends an attempt with that method.
C18_PollingAttemptMethod ==
    [][(/\ tp_pc["poll"] = "waiting"
        /\ tp_pc'["poll"] = "idle"
        /\ Len(tp_history') = Len(tp_history) + 1)
       => tp_history'[Len(tp_history')].method = "polling_backup"]_vars

(***************************************************************************)
(* The tasks of one monitored position: starts, reconnects, the timeout    *)
(***************************************************************************)
MaxLoops == 2       \* tasks of one kind followed at a time

\* Listener tasks of the position that are connected or reconnecting.
LiveListeners == (IF LiveListener(tp_task) THEN 1 ELSE 0) + tp_ws_up + tp_ws_down

\* The executions of the rungs leave the tasks alone (SpecTP follows them);
\* here the tasks are followed.
InitMonitor == InitTP

NextMonitor ==
    \/ /\ tp_polling < MaxLoops /\ tp_timeout < MaxLoops /\ tp_health < MaxLoops
       /\ tp_ws_up + tp_ws_down < MaxLoops
       /\ ensure_take_profit_execution
    \/ \E tracked \in BOOLEAN : WsFail(tracked)
    \/ \E tracked \in BOOLEAN : WsReconnect(tracked)
    \/ \E tracked \in BOOLEAN : WsBreak(tracked)
    \/ PollingLoopExit
    \/ HealthLoopExit
    \/ \E accepted \in BOOLEAN : (accepted \/ tp_alerts < MaxLoops) /\ timeout_protection(accepted)

SpecMonitor == InitMonitor /\ [][NextMonitor]_vars

\* C19: at any time a monitored position has exactly one live supervisor,
\* also after monitoring is started again for it and after a reconnect of
\* the price stream: one listener task and one polling task.
C19_OneSupervisor ==
    tp_monitoring => LiveListeners = 1 /\ tp_polling = 1

\* C20: when a position is closed its listener, polling, timeout and
\* health-check tasks are cancelled before its entry is removed: a position
\* without an entry has no live task.
C20_NoTaskOfRemovedPosition ==
    ~tp_monitoring =>
        LiveListeners = 0 /\ tp_polling = 0 /\ tp_timeout = 0 /\ tp_health = 0

(***************************************************************************)
(* The polling backup alone: the price stream has ended                    *)
(***************************************************************************)
InitPolling == InitTP

\* The stream ends on an ERROR message and is not reopened; the exchange
\* accepts every order it is sent.
NextPolling ==
    \/ ~tp_monitoring /\ ensure_take_profit_execution
    \/ WsBreak(TRUE)
    \/ \E p \in TpPrices : TpPriceMove(p)
    \/ TpObserve("poll")
    \/ \E raised \in BOOLEAN : TpAttempt("poll", raised, TRUE, TRUE)
    \/ TpResume("poll")

\* The polling task is scheduled again after every sleep, and an execution
\* it started runs to its end.
SpecPolling ==
    /\ InitPolling
    /\ [][NextPolling]_vars
    /\ WF_vars(TpObserve("poll"))
    /\ WF_vars(\E raised \in BOOLEAN : TpAttempt("poll", raised, TRUE, TRUE))
    /\ WF_vars(TpResume("poll"))

\* C17: when the trigger of a rung holds while the price stream is down, the
\* polling backup detects it and executes the exit within the polling
\* interval, and the rung becomes filled: every execution the polling task
\* finishes while no listener is connected leaves its rung executed.
C17_PollingFillsRung ==
    [][(/\ ~ChannelLive("ws")
        /\ tp_pc["poll"] = "waiting"
        /\ tp_pc'["poll"] = "idle")
       => tp_executed'[tp_rung["poll"]]]_vars

(***************************************************************************)
(* Reconciliation of a position the exchange lists with size zero          *)
(***************************************************************************)
\* The ladders kept for a position id by the profit and stop systems.
LadderIds ==
    DOMAIN rps_targets \cup DOMAIN ass_stops \cup DOMAIN cps_targets \cup DOMAIN css_stops

\* C21: when the exchange reports size zero for a tracked position, one
\* reconciliation cycle removes the position from the ledger together with
\* its ladders: no position the last cycle found with size zero is still in
\* the ledger or has a ladder.
C21_ZeroSizeRemoved ==
    \A pid \in sync_zero : pid \notin LocalIds /\ pid \notin LadderIds

(***************************************************************************)
(* The portfolio reset                                                     *)
(***************************************************************************)
InitReset == InitLedger

NextReset ==
    \/ NextLedger
    \/ reset_portfolio
    \/ \E fetched \in BOOLEAN : force_sync(fetched)

SpecReset == InitReset /\ [][NextReset]_vars

\* No position, ladder or mode slot in the portfolio manager, the scalping
\* and conservative systems and the mode manager.
LedgersEmpty ==
    /\ \A s \in Symbols : pm_positions[s] = <<>>
    /\ LocalIds = {}
    /\ DOMAIN css_positions = {}
    /\ LadderIds = {}
    /\ \A m \in Modes : active_positions[m] = <<>>

OrderSizes == {"small", "medium", "large"}

InitBreaker == InitLedger

NextBreaker ==
    \/ \E c \in Callers, priority \in Priorities, checksOk \in BOOLEAN, size \in OrderSizes :
          optimize_order_execution(c, priority, checksOk, size)
    \/ \E c \in Callers, success \in BOOLEAN : OptimizeComplete(c, success)
    \/ AdvanceClock

SpecBreaker == InitBreaker /\ [][NextBreaker]_vars

\* C23: after circuit_breaker_threshold consecutive failures every new
\* non-emergency request is rejected until the cooldown has elapsed: the
\* breaker is open whenever the count has reached the threshold, it closes
\* only after its time has passed, and no request of normal priority is sent
\* to execution while it is open and its time has not passed.
C23_BreakerSuspends ==
    [][/\ consecutive_failures' >= circuit_breaker_threshold => circuit_breaker_active'
       /\ circuit_breaker_active /\ ~circuit_breaker_active' => hf_now > circuit_breaker_until
       /\ \A c \in Callers :
             (/\ hf_pc[c] = "idle" /\ hf_pc'[c] = "executing"
              /\ hf_priority'[c] = "normal")
             => ~(circuit_breaker_active /\ hf_now <= circuit_breaker_until)]_vars

\* The breaker is open, its time has not passed, and the last request of
\* normal priority was turned away by it.
C23_Witness ==
    /\ circuit_breaker_active
    /\ hf_now <= circuit_breaker_until
    /\ consecutive_failures >= circuit_breaker_threshold
    /\ \E c \in Callers :
          hf_priority[c] = "normal" /\ hf_result[c] = "Circuit breaker active"

\* C24: while the breaker is open, requests of high priority are still
\* accepted and executed: the breaker turns away no request of priority
\* 'high'.
C24_EmergencyPassesBreaker ==
    \A c \in Callers :
        ~(hf_priority[c] = "high" /\ hf_result[c] = "Circuit breaker active")

(***************************************************************************)
(* Concurrent stop-loss executions for one monitored position              *)
(***************************************************************************)
\* C25: two concurrent invocations of the guaranteed stop-loss execution for
\* the same monitored position close it at most once in total: only one of
\* them drives the strategy sequence (has strategies in its backup_methods)
\* and at most one reports a successful close.
C25_ClosedAtMostOnce ==
    /\ Cardinality({i \in Invocations : sl_backup[i] # <<>>}) <= 1
    /\ Cardinality({i \in Invocations : sl_result[i] = "success"}) <= 1

(***************************************************************************)
(* The portfolio risk at the moment a position is added                    *)
(***************************************************************************)
\* C26: under any interleaving of concurrent open requests, at the moment an
\* approved position is added the portfolio risk, the new position included,
\* does not exceed max_portfolio_risk times the portfolio value.
C26_RiskWithinLimitOnAdd ==
    [][(\E s \in Symbols : Len(pm_positions'[s]) = Len(pm_positions[s]) + 1)
       => calculate_portfolio_risk(pm_positions') <= PortfolioRiskLimit]_vars

(***************************************************************************)
(* The portfolio gate over one correlation group                           *)
(***************************************************************************)
\* One admission approved by the gate: can_open_position allows the symbol
\* and add_position records the position, with nothing in between.
approved_admission(symbol, qty) ==
    /\ portfolio_can_open(symbol) = "ok"
    /\ add_position(symbol, qty)
    /\ UNCHANGED <<admVars, rapidVars, cpsVars, ledVars, exceptLedger>>

GroupQuantities == {Quantity \div 10, Quantity \div 5, (Quantity \div 5) * 2}

InitGroup ==
    /\ ModeManagerInitFixed /\ RapidInit /\ ConservativeInit /\ ConservativeStopInit
    /\ ExchangeInit /\ EmergencyInit /\ OptimizerInit /\ StopAdjustInit("BUY", "Buy")
    /\ GuaranteedExecutionInit /\ GuaranteedStopLossInit
    /\ pm_positions = [s \in BTC_GROUP |-> <<>>]

NextGroup ==
    \/ \E s \in BTC_GROUP, qty \in GroupQuantities : approved_admission(s, qty)
    \/ \E s \in BTC_GROUP, i \in 1..MaxPerSymbolLen : close_position(s, i)

SpecGroup == InitGroup /\ [][NextGroup]_vars

\* The open positions of the symbols of one correlation group.
GroupOpen(symbol) ==
    SumOver([s \in DOMAIN pm_positions |->
                Cardinality({j \in 1..Len(pm_positions[s]) :
                                pm_positions[s][j].status # "CLOSED"})],
            DOMAIN pm_positions \cap currency_group(symbol))

\* C27: after any sequence of admissions approved by the gate, the open
\* positions whose symbols belong to the same correlation group number at
\* most max_correlation_positions.
C27_GroupWithinLimit ==
    \A s \in DOMAIN pm_positions : GroupOpen(s) <= max_correlation_positions


\* The rules of the admission check in the order the specification gives
\* them, each with the reason of its rejection.
RuleReasons == <<"disabled", "max_positions", "daily_limit", "interval">>
RuleFails(m) ==
    << ~enabled[m],
       Len(active_positions[m]) >= max_positions[m],
       (IF Date(now) # last_reset_date THEN 0 ELSE daily_trades[m]) >= max_daily_trades[m],
       last_trade_time[m] # None /\ now - last_trade_time[m] < min_interval[m] >>
FailingRules(m) == {k \in 1..Len(RuleReasons) : RuleFails(m)[k]}

\* C28: the admission check of a mode evaluates mode enabled, open-position
\* cap, daily trade cap and minimum interval in that order and answers a
\* request with the reason of the first rule that fails, allowing it only
\* when none fails; with a position cap of 1 and one position open the
\* request is rejected with the reason of the position cap.
C28_FirstFailingRule ==
    [][\A r \in Requests :
          (reqPc[r] = "new" /\ reqPc'[r] # "new")
          => /\ IF FailingRules("scalping") = {}
                THEN reqPc'[r] = "awaiting"
                ELSE /\ reqPc'[r] = "rejected"
                     /\ reqReason'[r] = RuleReasons[SetMin(FailingRules("scalping"))]
             /\ (/\ enabled["scalping"]
                 /\ max_positions["scalping"] = 1
                 /\ Len(active_positions["scalping"]) = 1)
                => (reqPc'[r] = "rejected" /\ reqReason'[r] = "max_positions")]_vars

\* A request turned away at a cap of 1 with one position open, on a day whose
\* trade cap is used up as well.
C28_Witness ==
    \E r \in Requests :
        /\ reqPc[r] = "rejected"
        /\ reqReason[r] = "max_positions"
        /\ max_positions["scalping"] = 1
        /\ Len(active_positions["scalping"]) = 1
        /\ last_reset_date = Date(now)
        /\ daily_trades["scalping"] >= max_daily_trades["scalping"]


(***************************************************************************)
(* The dynamic stop-loss around its breakeven threshold                    *)
(***************************************************************************)
\* A position entered at EntryPrice with its stop 1 % or 2 % away; prices
\* 1.4 %, 1.6 % and 2 % from the entry on either side of it: short of the
\* breakeven threshold, between it and the trailing threshold, and at the
\* trailing threshold.
ThresholdMoves == {140, 160, 200}
ThresholdPrices == {EntryPrice + d : d \in ThresholdMoves} \cup {EntryPrice - d : d \in ThresholdMoves}
ThresholdStops(side) ==
    IF side = "Buy" THEN {EntryPrice - 200, EntryPrice - 100}
    ELSE {EntryPrice + 200, EntryPrice + 100}

InitThreshold == InitStops

NextThreshold ==
    \E price \in ThresholdPrices, current_sl \in ThresholdStops(dsl_side), atr \in AtrValues,
       ratio \in VolatilityRatios, regime \in Regimes :
       adjust_stop_loss(price, current_sl, atr, ratio, regime)

SpecThreshold == InitThreshold /\ [][NextThreshold]_vars

\* C29: for a long position entered at 100 with its stop at 98 and not yet
\* moved to breakeven, an adjustment at the price 101.6 returns the stop
\* 100.1 (the entry plus the 0.1 % buffer) as a breakeven move, whatever the
\* volatility and the regime, and no trailing adjustment.
C29_BreakevenAtThreshold ==
    [][(/\ dsl_side = "Buy"
        /\ ~dsl_breakeven
        /\ dsl_price' = EntryPrice + 160
        /\ dsl_result'.original_sl = EntryPrice - 200)
       => /\ dsl_result'.new_stop_loss = EntryPrice + EntryPrice \div 1000
          /\ dsl_result'.adjustment_type = "breakeven"
          /\ dsl_breakeven'
          /\ \A atr \in AtrValues :
                ~evaluate_trailing_stop(dsl_price', dsl_result'.original_sl, dsl_side, atr).should_adjust]_vars

\* The stop of the scenario moved from 98 to 100.1 by the breakeven move.
C29_Witness ==
    /\ dsl_side = "Buy"
    /\ dsl_price = EntryPrice + 160
    /\ dsl_result.original_sl = EntryPrice - 200
    /\ dsl_result.new_stop_loss = EntryPrice + EntryPrice \div 1000
    /\ dsl_result.adjustment_type = "breakeven"
    /\ dsl_breakeven


\* C30: whenever every strategy of a triggered stop-loss exit has ended
\* without a fill, the alert is raised before the execution returns: an
\* execution that returns after its fifth strategy, with no order of any
\* strategy filled (the exchange position is whole before and after the last
\* strategy, and no other execution has sent an order), raises the alert in
\* the step in which it returns.
C30_AlertWhenNothingFilled ==
    [][\A i \in Invocations :
          (/\ sl_pc[i] \in {"running", "finishing"}
           /\ sl_pc'[i] = "returned"
           /\ Len(sl_backup'[i]) = Len(execution_strategies)
           /\ \A j \in Invocations \ {i} : sl_backup[j] = <<>>
           /\ sl_exch = SlSize
           /\ sl_exch' = SlSize)
          => sl_alerts' = sl_alerts + 1]_vars


(***************************************************************************)
(* The retry budget of one triggered rung                                  *)
(***************************************************************************)
\* The executions recorded as failed: each went through max_retries passes
\* and raised the alert.
FailedExecutions == {j \in 1..Len(tp_history) : ~tp_history[j].success}

\* C31: for one triggered rung at most max_retries execution attempts are made
\* in total before the alert, attempts on later price updates included: while
\* the first rung is not executed every recorded failure is a failure of that
\* rung, and once one is recorded (max_retries attempts made, the alert
\* raised) no channel makes a further attempt for the rung.
C31_RetryBudget ==
    [][\A c \in Channels :
          (/\ tp_pc[c] = "attempt"
           /\ tp_pc'[c] = "waiting"
           /\ tp_rung[c] = 1
           /\ ~tp_executed[1])
          => FailedExecutions = {}]_vars


\* C32: when the hedge fallback is used after the direct strategies have
\* failed, the hedge order is opposite in side and equal in size to what is
\* still open, so the net exposure after the hedge is zero: every step in
\* which the fallback_hedge strategy of an execution gets an order filled for
\* no less than the open quantity leaves no exposure at the exchange.
C32_HedgeNeutralises ==
    [][\A i \in Invocations :
          (/\ sl_pc[i] = "running"
           /\ execution_strategies[sl_idx[i]] = "fallback_hedge"
           /\ Len(sl_backup'[i]) = Len(sl_backup[i]) + 1
           /\ sl_exch > 0
           /\ Abs(sl_exch' - sl_exch) >= sl_exch)
          => sl_exch' = 0]_vars


\* C33: a monitored position that stays open longer than its maximum holding
\* time is force-closed by the timeout-protection task: every step in which a
\* timeout-protection task wakes up for a position that is still monitored
\* leaves the position closed and its monitoring ended.
C33_TimeoutForceCloses ==
    [][(tp_timeout' = tp_timeout - 1 /\ tp_monitoring) => ~tp_monitoring']_vars


(***************************************************************************)
(* The health check of one monitored position                              *)
(***************************************************************************)
InitHealth == InitTP

\* One start of the monitoring and its first listener are followed.
NextHealth ==
    \/ tp_task = "none" /\ ensure_take_profit_execution
    \/ WsConnected
    \/ WsFail(TRUE)
    \/ WsBreak(TRUE)
    \/ \E api_healthy \in BOOLEAN : health_check_monitoring(api_healthy)
    \/ HealthLoopExit
    \/ timeout_protection(TRUE)

SpecHealth == InitHealth /\ [][NextHealth]_vars

\* C34: when the health check runs for a monitored position whose websocket
\* channel is not alive, the polling interval of the backup channel becomes
\* shorter than it was before the check.
C34_DegradedShortensPolling ==
    ~hc_log.ws_alive => hc_log.after < hc_log.before


(***************************************************************************)
(* The lazy reset of the daily counters                                    *)
(***************************************************************************)
\* A call of can_open_position (a request is answered) and a call of
\* register_position (a request is registered) in one step.
CanOpenCalled == \E r \in Requests : reqPc[r] = "new" /\ reqPc'[r] # "new"
RegisterCalled == \E r \in Requests : reqPc[r] = "awaiting" /\ reqPc'[r] = "registered"
DateChanged == Date(now) # last_reset_date

\* C35: when the date has changed since the last reset, the next call of
\* can_open_position or register_position sets the daily trade count of every
\* mode to 0 before evaluating or incrementing it (a request is then not
\* turned away for the daily cap, a registration leaves the count at 1); on
\* calls within the same date the count is never reset, and no other step
\* changes it.
C35_LazyDailyReset ==
    [][/\ (CanOpenCalled /\ DateChanged)
          => /\ \A m \in Modes : daily_trades'[m] = 0
             /\ last_reset_date' = Date(now)
             /\ \A r \in Requests :
                   (reqPc[r] = "new" /\ reqPc'[r] = "rejected")
                   => reqReason'[r] # "daily_limit"
       /\ (RegisterCalled /\ DateChanged)
          => /\ \A m \in Modes : daily_trades'[m] = (IF m = "scalping" THEN 1 ELSE 0)
             /\ last_reset_date' = Date(now)
       /\ (CanOpenCalled /\ ~DateChanged) => daily_trades' = daily_trades
       /\ (RegisterCalled /\ ~DateChanged)
          => daily_trades' = [daily_trades EXCEPT !["scalping"] = @ + 1]
       /\ ~(CanOpenCalled \/ RegisterCalled) => daily_trades' = daily_trades]_vars

\* A position registered the day before, and the counters reset by a call
\* of the new day.
C35_Witness ==
    /\ last_reset_date > 0
    /\ last_reset_date = Date(now)
    /\ Len(active_positions["scalping"]) > 0
    /\ daily_trades["scalping"] = 0
    /\ \E r \in Requests : reqPc[r] \in {"awaiting", "rejected"}


(***************************************************************************)
(* The two periodic loops under errors                                     *)
(***************************************************************************)
InitLoops == InitLedger

\* The exchange's positions change, the reconciliation loop runs with a
\* fetch that succeeds or fails, and one position is monitored by the polling
\* backup, whose iterations succeed or raise; the exchange accepts every order.
NextLoops ==
    \/ \E s \in Symbols, size \in ExchSizes : ExchangeChange(s, size)
    \/ \E fetched \in BOOLEAN : sync_loop(fetched)
    \/ tp_task = "none" /\ ensure_take_profit_execution
    \/ \E p \in TpPrices : TpPriceMove(p)
    \/ polling_error
    \/ TpObserve("poll")
    \/ TpAttempt("poll", FALSE, TRUE, TRUE)
    \/ TpResume("poll")

SpecLoops == InitLoops /\ [][NextLoops]_vars

\* C36: a reconciliation cycle whose fetch fails, and a polling-backup
\* iteration whose body raises, leave their loop running: the reconciliation
\* task is alive after the failed cycle and the polling task is still one of
\* the position's tasks, so the next cycle follows the sleep.
C36_LoopsSurviveErrors ==
    [][/\ (~sync_failed /\ sync_failed') => sync_running'
       /\ (~poll_failed /\ poll_failed') => (tp_polling' = tp_polling /\ tp_polling' > 0)
       /\ sync_running']_vars

\* Both loops have logged an error and are running; reconciliation has
\* imported a position and the polling task has executed a rung.
C36_Witness ==
    /\ sync_failed /\ sync_running /\ LocalIds # {}
    /\ poll_failed /\ tp_polling > 0 /\ tp_executed[1]


\* C37: for each trading mode, the positions registered as open in the mode
\* manager never number more than the mode's max_positions.
C37_ModeWithinCap ==
    \A m \in Modes : Len(active_positions[m]) <= max_positions[m]


(***************************************************************************)
(* Scalping entries under reconciliation                                   *)
(***************************************************************************)
InitScalpSync == InitLedger

\* Scalping entries are opened, the exchange's positions change (the fills of
\* those entries among them) and the reconciliation loop runs.
NextScalpSync ==
    \/ \E r \in Requests : ExecuteScalpingCheck(r)
    \/ \E r \in Requests, executed \in BOOLEAN : ExecuteScalpingComplete(r, executed, "BUY")
    \/ \E s \in Symbols, size \in ExchSizes : ExchangeChange(s, size)
    \/ \E fetched \in BOOLEAN : sync_loop(fetched)

SpecScalpSync == InitScalpSync /\ [][NextScalpSync]_vars

\* The exchange reports an open position for the symbol a ledger position
\* was opened in; a record without a symbol stands for an entry in any of the
\* traded symbols.
ExchangeOpen(pid) ==
    IF LocalSymbol(pid) = NoSymbol THEN \A s \in Symbols : exch_size[s] > 0
    ELSE exch_size[LocalSymbol(pid)] > 0

ModeSlots(m) == {active_positions[m][j] : j \in 1..Len(active_positions[m])}

\* C39: a mode slot is held only for a position the ledgers still know: once
\* a position has been closed or cleaned up, its slot is released and counts
\* no more against the mode's cap.
C39_SlotReleased ==
    \A m \in Modes : ModeSlots(m) \subseteq LocalIds


(***************************************************************************)
(* The stop-loss monitoring check                                          *)
(***************************************************************************)
InitAvoid == InitTP

NextAvoid ==
    \/ \E side \in Sides : start_position_monitoring(side)
    \/ \E p \in MarkPrices : MarkPriceMove(p)
    \/ \E answered \in BOOLEAN : monitor_all_positions(answered)

SpecAvoid == InitAvoid /\ [][NextAvoid]_vars

\* C40: a check that finds the position at the exchange with its mark price
\* at or beyond the stop-loss level reports the trigger for execution; the
\* avoidance logic suppresses none, so no run of consecutive checks is held
\* back while the price stays there.
C40_TriggerReported ==
    [][(/\ sl_monitored
        /\ should_trigger(sl_config, mark_price)
        /\ <<check_result, false_breakout_history>>' # <<check_result, false_breakout_history>>
        /\ check_result'.reason # "closed")
       => (check_result'.trigger_execution /\ avoidance_active' = 0)]_vars

\* The price is beyond the stop, two checks in a row have evaluated the
\* trigger and the last one reported it.
C40_Witness ==
    /\ sl_monitored
    /\ should_trigger(sl_config, mark_price)
    /\ false_breakout_history >= 2
    /\ check_result.trigger_execution

====
